---- MODULE Spec2Model ----
(***************************************************************************)
(* Library reservation queue, event dispatch and borrowing flow of the     *)
(* clean-architecture lessons repository.                                  *)
(*                                                                         *)
(* Time is the value of Date.now().  One unit of `now' is the smallest     *)
(* step of the clock; operations executed at the same value of `now' are   *)
(* operations executed within the same millisecond.  A day is DayMs units. *)
(***************************************************************************)
EXTENDS Integers, Sequences, FiniteSets, TLC

VARIABLES now, reservations, books, users, last, published,
          handlers, pubHandlers, delivery,
          ent, entResult,
          tasks, log

\* published: the events the last operation published, in order, each with
\* the dispatcher it went through (the DomainEventPublisher singleton or
\* the EventBus)
sysVars == <<reservations, books, users, last, published>>
busVars == <<handlers, pubHandlers, delivery>>
entVars == <<ent, entResult>>
\* tasks: the invocations in progress, each suspended at one of its awaits;
\* log: what they have stored and published so far, in order
taskVars == <<tasks, log>>
vars    == <<now, reservations, books, users, last, published,
             handlers, pubHandlers, delivery, ent, entResult, tasks, log>>

(***************************************************************************)
(* Bounds of the model.                                                    *)
(***************************************************************************)
NumUsers   == 2
NumBooks   == 2
MaxNow     == 10
MaxRes     == 2
QueueLen   == 3
MaxRestore == 2
MaxSubs    == 3
\* invocations that may be in progress at the same time
NumTasks   == 2
\* books on the shelf where users borrow up to their limit
ShelfSize  == 6
\* the longest time a book has been out, in days
MaxDaysOut == 120
\* clock units per day: the scale at which the millisecond clock is observed
DayMs      == 2

Users == 1..NumUsers
Books == 1..NumBooks

(***************************************************************************)
(* Program constants.                                                      *)
(***************************************************************************)
HOLD_PERIOD_DAYS == 3
\* Date.now().toString().slice(-10): identifiers repeat every 10^10 ms;
\* a day (1000 * 60 * 60 * 24 ms) is DayMs clock units
IdModulus == (100000 * DayMs) \div 864
MAX_BORROW_LIMIT == 5
DUE_DAYS == 14
GRACE_PERIOD == 3
FEE_PER_DAY == 10
MAX_FEE == 1000

NULL == -1
\* an identifier that resolves to no stored user / book
NoUser == NULL
NoBook == NULL

ACTIVE    == "active"
READY     == "ready"
FULFILLED == "fulfilled"
EXPIRED   == "expired"
CANCELLED == "cancelled"
ReservationStatus == {ACTIVE, READY, FULFILLED, EXPIRED, CANCELLED}

AVAILABLE   == "available"
BORROWED    == "borrowed"
MAINTENANCE == "maintenance"

Max(a, b) == IF a >= b THEN a ELSE b
Min(a, b) == IF a <= b THEN a ELSE b

\* a thrown Error
Err(msg) == [err |-> msg]

\* the record v with its fields in the order TLC keeps for stored values
\* (the comparison sorts them once, before the value is shared)
Canonical(v) == LET w == v IN IF w = w THEN w ELSE w
IsErr(x) == "err" \in DOMAIN x

(***************************************************************************)
(* Reservation entity.                                                     *)
(***************************************************************************)
\* mutant: the constructor accepts every combination of fields
validate_Nothing(r) == TRUE

\* Reservation.validate: TRUE when the constructor does not throw
validate(r) ==
  /\ ~(r.status = READY /\ (r.readyAt = NULL \/ r.expiresAt = NULL))
  /\ ~(r.expiresAt # NULL /\ r.expiresAt <= r.createdAt)

\* the private constructor: assigns the fields, then validates
NewReservation(id, userId, bookId, status, createdAt, readyAt, expiresAt) ==
  LET r == [id |-> id, userId |-> userId, bookId |-> bookId,
            status |-> status, createdAt |-> createdAt,
            readyAt |-> readyAt, expiresAt |-> expiresAt]
  IN IF validate(r) THEN Canonical(r) ELSE Err("invalid reservation")

\* ReservationId.generate at clock value t
generate(t) == t % IdModulus

\* Reservation.create at clock value t
create(userId, bookId, t) ==
  NewReservation(generate(t), userId, bookId, ACTIVE, t, NULL, NULL)

restore(id, userId, bookId, status, createdAt, readyAt, expiresAt) ==
  NewReservation(id, userId, bookId, status, createdAt, readyAt, expiresAt)

\* mutant: the hold ends one day early
markAsReady_ShortHold(r, t) ==
  IF r.status # ACTIVE
  THEN Err("Only active reservations can be marked as ready")
  ELSE NewReservation(r.id, r.userId, r.bookId, READY, r.createdAt,
                      t, t + (HOLD_PERIOD_DAYS - 1) * DayMs)

\* setDate(getDate() + HOLD_PERIOD_DAYS) adds calendar days; a calendar day
\* is DayMs clock units (no daylight-saving change falls in the window)
markAsReady(r, t) ==
  IF r.status # ACTIVE
  THEN Err("Only active reservations can be marked as ready")
  ELSE NewReservation(r.id, r.userId, r.bookId, READY, r.createdAt,
                      t, t + HOLD_PERIOD_DAYS * DayMs)

\* mutant: the hold already counts as expired at the instant expiresAt
isExpired_AtDeadline(r, t) ==
  IF r.status # READY \/ r.expiresAt = NULL
  THEN FALSE
  ELSE t >= r.expiresAt

isExpired(r, t) ==
  IF r.status # READY \/ r.expiresAt = NULL
  THEN FALSE
  ELSE t > r.expiresAt

\* Math.ceil(ms / DayMs) for any integer ms
CeilDays(ms) ==
  IF ms >= 0 THEN (ms + DayMs - 1) \div DayMs ELSE -((-ms) \div DayMs)

\* mutant: whole days rounded down instead of up
getRemainingDays_Floor(r, t) ==
  IF r.status # READY \/ r.expiresAt = NULL
  THEN 0
  ELSE Max(0, (r.expiresAt - t) \div DayMs)

getRemainingDays(r, t) ==
  IF r.status # READY \/ r.expiresAt = NULL
  THEN 0
  ELSE Max(0, CeilDays(r.expiresAt - t))

\* mutant: fulfill() without the isExpired() check
fulfill_NoExpiryCheck(r, t) ==
  IF r.status # READY
  THEN Err("Only ready reservations can be fulfilled")
  ELSE NewReservation(r.id, r.userId, r.bookId, FULFILLED, r.createdAt,
                      r.readyAt, r.expiresAt)

fulfill(r, t) ==
  IF r.status # READY
  THEN Err("Only ready reservations can be fulfilled")
  ELSE IF isExpired(r, t)
  THEN Err("Cannot fulfill expired reservation")
  ELSE NewReservation(r.id, r.userId, r.bookId, FULFILLED, r.createdAt,
                      r.readyAt, r.expiresAt)

\* mutant: expire() returns the snapshot with its status unchanged
expire_KeepsStatus(r) ==
  IF r.status # READY
  THEN Err("Only ready reservations can expire")
  ELSE NewReservation(r.id, r.userId, r.bookId, READY, r.createdAt,
                      r.readyAt, r.expiresAt)

expire(r) ==
  IF r.status # READY
  THEN Err("Only ready reservations can expire")
  ELSE NewReservation(r.id, r.userId, r.bookId, EXPIRED, r.createdAt,
                      r.readyAt, r.expiresAt)

cancel(r) ==
  IF r.status = FULFILLED
  THEN Err("Cannot cancel fulfilled reservation")
  ELSE IF r.status = EXPIRED
  THEN Err("Cannot cancel expired reservation")
  ELSE NewReservation(r.id, r.userId, r.bookId, CANCELLED, r.createdAt,
                      r.readyAt, r.expiresAt)

(***************************************************************************)
(* InMemoryReservationRepository: a Map keyed by id, in insertion order.   *)
(* Map.set of an existing key replaces the value and keeps its position.   *)
(***************************************************************************)
IndexOfId(store, id) ==
  IF \E i \in 1..Len(store) : store[i].id = id
  THEN CHOOSE i \in 1..Len(store) : store[i].id = id
  ELSE 0

save(store, r) ==
  IF IndexOfId(store, r.id) # 0
  THEN [store EXCEPT ![IndexOfId(store, r.id)] = r]
  ELSE Append(store, r)

NoReservation == [id |-> NULL]

findById(store, id) ==
  IF IndexOfId(store, id) # 0 THEN store[IndexOfId(store, id)]
  ELSE NoReservation

findActiveByBook(store, bookId) ==
  SelectSeq(store, LAMBDA r : r.bookId = bookId /\ r.status = ACTIVE)

findByStatus(store, status) ==
  SelectSeq(store, LAMBDA r : r.status = status)

findByUserAndBook(store, userId, bookId) ==
  SelectSeq(store, LAMBDA r : r.userId = userId /\ r.bookId = bookId)

(***************************************************************************)
(* Array.prototype.sort with (a, b) => a.createdAt - b.createdAt: a stable *)
(* sort, here an insertion sort that keeps equal keys in input order.      *)
(***************************************************************************)
RECURSIVE InsertByCreatedAt(_, _)
InsertByCreatedAt(sorted, r) ==
  IF sorted = <<>> THEN <<r>>
  ELSE IF r.createdAt - sorted[Len(sorted)].createdAt >= 0
       THEN Append(sorted, r)
       ELSE Append(InsertByCreatedAt(SubSeq(sorted, 1, Len(sorted) - 1), r),
                   sorted[Len(sorted)])

RECURSIVE SortByCreatedAt(_)
SortByCreatedAt(s) ==
  IF s = <<>> THEN <<>>
  ELSE InsertByCreatedAt(SortByCreatedAt(SubSeq(s, 1, Len(s) - 1)), s[Len(s)])

(***************************************************************************)
(* Event dispatch: EventBus.publish and DomainEventPublisher.publish.      *)
(* A registry maps an event type to the array of its handlers; a type      *)
(* without a key has no handlers.                                          *)
(***************************************************************************)
EventTypes == {"BookAvailable", "BookReserved", "ReservationReady",
               "ReservationExpired"}
BusTypes == {"BookAvailable", "BookReserved"}
TestHandlers == {"h1", "h2", "hThrow", "hReject"}

EmptyRegistry == [t \in {} |-> <<>>]

\* what a call of handler h does: return, throw synchronously, or return a
\* promise that rejects
invoke(h) ==
  CASE h = "hThrow"  -> "throws"
    [] h = "hReject" -> "rejects"
    [] OTHER         -> "returns"

\* mutant: no try/catch around the await, the first failure ends the loop
RECURSIVE dispatch_NoCatch(_, _)
dispatch_NoCatch(eventHandlers, i) ==
  IF i > Len(eventHandlers)
  THEN [calls |-> <<>>, outcome |-> "resolved"]
  ELSE IF invoke(eventHandlers[i]) # "returns"
  THEN [calls |-> <<eventHandlers[i]>>, outcome |-> "rejected"]
  ELSE LET rest == dispatch_NoCatch(eventHandlers, i + 1)
       IN [calls |-> <<eventHandlers[i]>> \o rest.calls,
           outcome |-> rest.outcome]

\* mutant: the loop stops after the first handler
RECURSIVE dispatch_FirstOnly(_, _)
dispatch_FirstOnly(eventHandlers, i) ==
  IF i > Len(eventHandlers) \/ i > 1
  THEN [calls |-> <<>>, outcome |-> "resolved"]
  ELSE LET rest == dispatch_FirstOnly(eventHandlers, i + 1)
       IN [calls |-> <<eventHandlers[i]>> \o rest.calls,
           outcome |-> rest.outcome]

\* for (const handler of eventHandlers) { try { await handler(event) }
\* catch (error) { console.error(...) } }, from position i on
RECURSIVE dispatch(_, _)
dispatch(eventHandlers, i) ==
  IF i > Len(eventHandlers)
  THEN [calls |-> <<>>, outcome |-> "resolved"]
  ELSE LET rest == dispatch(eventHandlers, i + 1)
       IN IF invoke(eventHandlers[i]) = "returns"
          THEN [calls |-> <<eventHandlers[i]>> \o rest.calls,
                outcome |-> rest.outcome]
          ELSE \* caught and logged, the loop goes on
               [calls |-> <<eventHandlers[i]>> \o rest.calls,
                outcome |-> rest.outcome]

\* this.handlers.get(eventType) || []
handlersOf(registry, eventType) ==
  IF eventType \in DOMAIN registry THEN registry[eventType] ELSE <<>>

publish(registry, eventType) == dispatch(handlersOf(registry, eventType), 1)

subscribe(registry, eventType, h) ==
  [t \in (DOMAIN registry) \cup {eventType} |->
     IF t = eventType THEN Append(handlersOf(registry, eventType), h)
     ELSE registry[t]]

\* handlers.indexOf(handler), 1-based, 0 when absent
indexOf(hs, h) ==
  IF \E i \in 1..Len(hs) : hs[i] = h
  THEN CHOOSE i \in 1..Len(hs) : hs[i] = h /\ \A j \in 1..(i - 1) : hs[j] # h
  ELSE 0

\* handlers.splice(index, 1)
splice1(hs, index) == SubSeq(hs, 1, index - 1) \o SubSeq(hs, index + 1, Len(hs))

\* mutant: splice is called whatever indexOf returned; splice(-1, 1)
\* removes the last element
unsubscribe_NoIndexCheck(registry, eventType, h) ==
  IF eventType \notin DOMAIN registry THEN registry
  ELSE LET hs    == registry[eventType]
           index == indexOf(hs, h)
           after == IF index > 0 THEN splice1(hs, index)
                    ELSE splice1(hs, Len(hs))
       IN IF Len(after) = 0
          THEN [t \in (DOMAIN registry) \ {eventType} |-> registry[t]]
          ELSE [registry EXCEPT ![eventType] = after]

unsubscribe(registry, eventType, h) ==
  IF eventType \notin DOMAIN registry THEN registry
  ELSE LET hs    == registry[eventType]
           index == indexOf(hs, h)
           after == IF index > 0 THEN splice1(hs, index) ELSE hs
       IN IF Len(after) = 0
          THEN [t \in (DOMAIN registry) \ {eventType} |-> registry[t]]
          ELSE [registry EXCEPT ![eventType] = after]

\* the registry of the DomainEventPublisher singleton once the
\* BookAvailableHandler has been constructed
PublisherAtStartup == subscribe(EmptyRegistry, "BookAvailable", "BookAvailableHandler")

Event(type, rid, userId, bookId, expiresAt, via) ==
  Canonical([type |-> type, reservationId |-> rid, userId |-> userId,
             bookId |-> bookId, expiresAt |-> expiresAt, via |-> via])

(***************************************************************************)
(* ReservationQueueService.  The operators work on a record                *)
(* [store, events]: the repository contents and the events published on    *)
(* the DomainEventPublisher singleton so far in the running operation.     *)
(***************************************************************************)
\* mutant: duplicate check that looks at ACTIVE reservations only
hasActiveReservation_ActiveOnly(store, userId, bookId) ==
  LET existingReservations == findByUserAndBook(store, userId, bookId)
  IN \E i \in 1..Len(existingReservations) :
        existingReservations[i].status = ACTIVE

\* mutant: duplicate check that looks at READY reservations only
hasActiveReservation_ReadyOnly(store, userId, bookId) ==
  LET existingReservations == findByUserAndBook(store, userId, bookId)
  IN \E i \in 1..Len(existingReservations) :
        existingReservations[i].status = READY

hasActiveReservation(store, userId, bookId) ==
  LET existingReservations == findByUserAndBook(store, userId, bookId)
  IN \E i \in 1..Len(existingReservations) :
        \/ existingReservations[i].status = ACTIVE
        \/ existingReservations[i].status = READY

reserveBook(st, userId, bookId, t) ==
  IF hasActiveReservation(st.store, userId, bookId)
  THEN [success |-> FALSE,
        error |-> "User already has active reservation for this book",
        store |-> st.store, events |-> st.events]
  ELSE LET reservation == create(userId, bookId, t)
       IN [success |-> TRUE, error |-> "",
           store |-> save(st.store, reservation),
           events |-> Append(st.events,
                        Event("BookReserved", reservation.id, userId, bookId,
                              NULL, "DomainEventPublisher"))]

\* mutant: the queue head is the first ACTIVE reservation in store order
getNextInQueue_Unsorted(store, bookId) ==
  LET activeReservations == findActiveByBook(store, bookId)
  IN IF Len(activeReservations) = 0 THEN NoReservation
     ELSE activeReservations[1]

getNextInQueue(store, bookId) ==
  LET activeReservations == findActiveByBook(store, bookId)
  IN IF Len(activeReservations) = 0 THEN NoReservation
     ELSE SortByCreatedAt(activeReservations)[1]

\* mutant: the position is taken in store order, without the sort
getQueuePosition_Unsorted(store, bookId, userId) ==
  LET found == findActiveByBook(store, bookId)
  IN IF \E i \in 1..Len(found) : found[i].userId = userId
     THEN CHOOSE i \in 1..Len(found) :
            /\ found[i].userId = userId
            /\ \A j \in 1..(i - 1) : found[j].userId # userId
     ELSE 0

getQueuePosition(store, bookId, userId) ==
  LET sorted == SortByCreatedAt(findActiveByBook(store, bookId))
  IN IF \E i \in 1..Len(sorted) : sorted[i].userId = userId
     THEN CHOOSE i \in 1..Len(sorted) :
            /\ sorted[i].userId = userId
            /\ \A j \in 1..(i - 1) : sorted[j].userId # userId
     ELSE 0

notifyNextInQueue(st, bookId, t) ==
  LET nextReservation == getNextInQueue(st.store, bookId)
  IN IF nextReservation = NoReservation THEN st
     ELSE LET readyReservation == markAsReady(nextReservation, t)
          IN [st EXCEPT
                !.store = save(st.store, readyReservation),
                !.events = Append(st.events,
                             Event("ReservationReady", readyReservation.id,
                                   readyReservation.userId,
                                   readyReservation.bookId,
                                   readyReservation.expiresAt,
                                   "DomainEventPublisher"))]

\* mutant: the sweep expires, counts and notifies but publishes no
\* ReservationExpired event
RECURSIVE sweepLoop_NoEvent(_, _, _, _)
sweepLoop_NoEvent(readyReservations, i, st, t) ==
  IF i > Len(readyReservations) THEN st
  ELSE LET reservation == readyReservations[i]
       IN IF isExpired(reservation, t)
          THEN LET saved == [store |-> save(st.store, expire(reservation)),
                             events |-> st.events,
                             count |-> st.count + 1]
               IN sweepLoop_NoEvent(readyReservations, i + 1,
                    notifyNextInQueue(saved, reservation.bookId, t), t)
          ELSE sweepLoop_NoEvent(readyReservations, i + 1, st, t)

\* mutant: the sweep expires and counts but does not notify the next in queue
RECURSIVE sweepLoop_NoCascade(_, _, _, _)
sweepLoop_NoCascade(readyReservations, i, st, t) ==
  IF i > Len(readyReservations) THEN st
  ELSE LET reservation == readyReservations[i]
       IN IF isExpired(reservation, t)
          THEN sweepLoop_NoCascade(readyReservations, i + 1,
                 [store |-> save(st.store, expire(reservation)),
                  events |-> Append(st.events,
                     Event("ReservationExpired", reservation.id,
                           reservation.userId, reservation.bookId, NULL,
                           "DomainEventPublisher")),
                  count |-> st.count + 1], t)
          ELSE sweepLoop_NoCascade(readyReservations, i + 1, st, t)

\* the for loop of processExpiredReservations over the READY reservations
\* read at its start, from position i on
RECURSIVE sweepLoop(_, _, _, _)
sweepLoop(readyReservations, i, st, t) ==
  IF i > Len(readyReservations) THEN st
  ELSE LET reservation == readyReservations[i]
       IN IF isExpired(reservation, t)
          THEN LET expiredReservation == expire(reservation)
                   saved == [store |-> save(st.store, expiredReservation),
                             events |-> Append(st.events,
                                Event("ReservationExpired", reservation.id,
                                      reservation.userId, reservation.bookId,
                                      NULL, "DomainEventPublisher")),
                             count |-> st.count + 1]
               IN sweepLoop(readyReservations, i + 1,
                            notifyNextInQueue(saved, reservation.bookId, t), t)
          ELSE sweepLoop(readyReservations, i + 1, st, t)

processExpiredReservations(store, t) ==
  sweepLoop(findByStatus(store, READY), 1,
            [store |-> store, events |-> <<>>, count |-> 0], t)

\* mutant: the next in queue is notified whatever the status was
cancelReservation_AlwaysCascade(st, reservation, t) ==
  LET cancelled == cancel(reservation)
  IN IF IsErr(cancelled) THEN [st EXCEPT !.threw = TRUE]
     ELSE notifyNextInQueue([st EXCEPT !.store = save(st.store, cancelled)],
                            reservation.bookId, t)

\* the argument is a READY or ACTIVE or CANCELLED snapshot; cancel() throws
\* for the other statuses and nothing is saved
cancelReservation(st, reservation, t) ==
  LET cancelled == cancel(reservation)
  IN IF IsErr(cancelled) THEN [st EXCEPT !.threw = TRUE]
     ELSE LET saved == [st EXCEPT !.store = save(st.store, cancelled)]
          IN IF reservation.status = READY
             THEN notifyNextInQueue(saved, reservation.bookId, t)
             ELSE saved

\* mutant: fulfilment notifies the next in queue as cancellation does
fulfillReservation_Cascade(st, reservation, t) ==
  LET fulfilled == fulfill(reservation, t)
  IN IF IsErr(fulfilled) THEN [st EXCEPT !.threw = TRUE]
     ELSE notifyNextInQueue([st EXCEPT !.store = save(st.store, fulfilled)],
                            reservation.bookId, t)

fulfillReservation(st, reservation, t) ==
  LET fulfilled == fulfill(reservation, t)
  IN IF IsErr(fulfilled) THEN [st EXCEPT !.threw = TRUE]
     ELSE [st EXCEPT !.store = save(st.store, fulfilled)]

(***************************************************************************)
(* Book and User entities, BorrowBookService.                              *)
(***************************************************************************)
NewBook(status, borrowedBy, borrowedAt) ==
  Canonical([status |-> status, borrowedBy |-> borrowedBy,
             borrowedAt |-> borrowedAt])

isAvailable(book) == book.status = AVAILABLE

Book_borrow(book, userId, t) ==
  IF ~isAvailable(book) THEN Err("Book is not available for borrowing")
  ELSE NewBook(BORROWED, userId, t)

\* the returned book carries one BookAvailableEvent
Book_returnBook(book) ==
  IF book.status # BORROWED THEN Err("Only borrowed books can be returned")
  ELSE NewBook(AVAILABLE, NULL, NULL)

\* mutant: returnBook() raises no event
getDomainEvents_None(bookId) == <<>>

\* getDomainEvents() of the Book that returnBook() returned for bookId: the
\* BookAvailableEvent added to a new instance
getDomainEvents(bookId) ==
  <<Event("BookAvailable", NULL, NULL, bookId, NULL, "EventBus")>>

getDaysBorrowed(book, t) ==
  IF book.status # BORROWED \/ book.borrowedAt = NULL THEN 0
  ELSE (t - book.borrowedAt) \div DayMs

getOverdueDays(book, t) ==
  IF getDaysBorrowed(book, t) <= DUE_DAYS THEN 0
  ELSE getDaysBorrowed(book, t) - DUE_DAYS

\* mutant: the fee is not capped
calculateOverdueFee_NoCap(book, t) ==
  LET overdueDays == getOverdueDays(book, t)
  IN IF overdueDays = 0 THEN 0
     ELSE IF overdueDays <= GRACE_PERIOD THEN 0
     ELSE (overdueDays - GRACE_PERIOD) * FEE_PER_DAY

calculateOverdueFee(book, t) ==
  LET overdueDays == getOverdueDays(book, t)
  IN IF overdueDays = 0 THEN 0
     ELSE IF overdueDays <= GRACE_PERIOD THEN 0
     ELSE Min((overdueDays - GRACE_PERIOD) * FEE_PER_DAY, MAX_FEE)

NewUser(status, currentBorrowCount, overdueFees) ==
  IF currentBorrowCount < 0 \/ currentBorrowCount > MAX_BORROW_LIMIT
     \/ overdueFees < 0
  THEN Err("invalid user")
  ELSE Canonical([status |-> status,
                  currentBorrowCount |-> currentBorrowCount,
                  overdueFees |-> overdueFees])

canBorrow(user) ==
  /\ user.status # "SUSPENDED"
  /\ ~(user.currentBorrowCount >= MAX_BORROW_LIMIT)
  /\ ~(user.overdueFees > 0)

User_borrowBook(user) ==
  IF ~canBorrow(user) THEN Err("User cannot borrow more books")
  ELSE NewUser(user.status, user.currentBorrowCount + 1, user.overdueFees)

\* mutant: the returning user keeps the count
User_returnBook_KeepCount(user, overdueFee) ==
  IF user.currentBorrowCount <= 0
  THEN Err("User has no borrowed books to return")
  ELSE NewUser(user.status, user.currentBorrowCount,
               user.overdueFees + overdueFee)

User_returnBook(user, overdueFee) ==
  IF user.currentBorrowCount <= 0
  THEN Err("User has no borrowed books to return")
  ELSE NewUser(user.status, user.currentBorrowCount - 1,
               user.overdueFees + overdueFee)

\* mutant: no eligibility check, and the book is saved before
\* user.borrowBook() is evaluated
BorrowBookService_execute_BookFirst(us, bs, u, b, t) ==
  IF ~isAvailable(bs[b])
  THEN [success |-> FALSE, error |-> "Book is not available for borrowing",
        users |-> us, books |-> bs]
  ELSE LET updatedBook == Book_borrow(bs[b], u, t)
           saved       == [bs EXCEPT ![b] = updatedBook]
           updatedUser == User_borrowBook(us[u])
       IN IF IsErr(updatedUser) THEN
            [success |-> FALSE, error |-> updatedUser.err,
             users |-> us, books |-> saved]
          ELSE
            [success |-> TRUE, error |-> "",
             users |-> [us EXCEPT ![u] = updatedUser],
             books |-> saved]

\* BorrowBookService.execute(user, book) for the stored user u and book b
BorrowBookService_execute(us, bs, u, b, t) ==
  IF ~canBorrow(us[u])
  THEN [success |-> FALSE, error |-> "User is not eligible to borrow books",
        users |-> us, books |-> bs]
  ELSE IF ~isAvailable(bs[b])
  THEN [success |-> FALSE, error |-> "Book is not available for borrowing",
        users |-> us, books |-> bs]
  ELSE LET updatedUser == User_borrowBook(us[u])
           updatedBook == Book_borrow(bs[b], u, t)
       IN IF IsErr(updatedUser) THEN
            [success |-> FALSE, error |-> updatedUser.err,
             users |-> us, books |-> bs]
          ELSE IF IsErr(updatedBook) THEN
            [success |-> FALSE, error |-> updatedBook.err,
             users |-> us, books |-> bs]
          ELSE
            [success |-> TRUE, error |-> "",
             users |-> [us EXCEPT ![u] = updatedUser],
             books |-> [bs EXCEPT ![b] = updatedBook]]

\* mutant: returnBook does not look at who borrowed the book
BorrowBookService_returnBook_AnyUser(us, bs, u, b, t) ==
  LET overdueFee  == calculateOverdueFee(bs[b], t)
      updatedUser == User_returnBook(us[u], overdueFee)
      updatedBook == Book_returnBook(bs[b])
  IN IF IsErr(updatedUser) THEN
       [success |-> FALSE, error |-> updatedUser.err,
        users |-> us, books |-> bs, overdueFee |-> 0]
     ELSE IF IsErr(updatedBook) THEN
       [success |-> FALSE, error |-> updatedBook.err,
        users |-> us, books |-> bs, overdueFee |-> 0]
     ELSE
       [success |-> TRUE, error |-> "",
        users |-> [us EXCEPT ![u] = updatedUser],
        books |-> [bs EXCEPT ![b] = updatedBook],
        overdueFee |-> overdueFee]

\* BorrowBookService.returnBook(user, book)
BorrowBookService_returnBook(us, bs, u, b, t) ==
  IF bs[b].borrowedBy = NULL \/ bs[b].borrowedBy # u
  THEN [success |-> FALSE, error |-> "Book is not borrowed by this user",
        users |-> us, books |-> bs, overdueFee |-> 0]
  ELSE LET overdueFee  == calculateOverdueFee(bs[b], t)
           updatedUser == User_returnBook(us[u], overdueFee)
           updatedBook == Book_returnBook(bs[b])
       IN IF IsErr(updatedUser) THEN
            [success |-> FALSE, error |-> updatedUser.err,
             users |-> us, books |-> bs, overdueFee |-> 0]
          ELSE IF IsErr(updatedBook) THEN
            [success |-> FALSE, error |-> updatedBook.err,
             users |-> us, books |-> bs, overdueFee |-> 0]
          ELSE
            [success |-> TRUE, error |-> "",
             users |-> [us EXCEPT ![u] = updatedUser],
             books |-> [bs EXCEPT ![b] = updatedBook],
             overdueFee |-> overdueFee]

(***************************************************************************)
(* Delivery of a BookAvailable event for bookId to the handlers `calls'    *)
(* that a publish invoked, in order.  BookAvailableHandler.handle calls    *)
(* notifyNextInQueue; the other handlers do not touch the repository.      *)
(***************************************************************************)
RECURSIVE deliverBookAvailable(_, _, _, _, _)
deliverBookAvailable(calls, i, st, bookId, t) ==
  IF i > Len(calls) THEN st
  ELSE deliverBookAvailable(calls, i + 1,
         IF calls[i] = "BookAvailableHandler"
         THEN notifyNextInQueue(st, bookId, t) ELSE st,
         bookId, t)

(***************************************************************************)
(* State after construction.                                               *)
(***************************************************************************)
\* what the last operation returned to its caller
Outcome(op, result, count, position) ==
  Canonical([op |-> op, result |-> result, count |-> count,
             position |-> position])

\* what the last publish did: the bus, the event type, the handlers it
\* invoked in order, and how the promise it returned settled
Delivery(bus, type, calls, outcome) ==
  Canonical([bus |-> bus, type |-> type, calls |-> calls,
             outcome |-> outcome])

\* what the last entity operation did
EntOutcome(op, threw) == Canonical([op |-> op, threw |-> threw])

\* one invocation in progress: the operation, the await it is suspended
\* at, and its local variables
Task(op, pc, readyReservations, i, reservation, activeReservations, readyReservation, expiredCount) ==
  Canonical([op |-> op, pc |-> pc, readyReservations |-> readyReservations,
             i |-> i, reservation |-> reservation,
             activeReservations |-> activeReservations,
             readyReservation |-> readyReservation,
             expiredCount |-> expiredCount,
             userId |-> NULL, bookId |-> NULL,
             existingReservations |-> <<>>])

IdleTask ==
  Task("none", "idle", <<>>, 0, NoReservation, <<>>, NoReservation, 0)

Tasks == 1..NumTasks

Init ==
  /\ now = 0
  /\ reservations = <<>>
  /\ books = [b \in Books |-> NewBook(AVAILABLE, NULL, NULL)]
  /\ users = [u \in Users |-> NewUser("ACTIVE", 0, 0)]
  /\ last = Outcome("init", "", 0, 0)
  /\ published = <<>>
  /\ handlers = EmptyRegistry
  /\ pubHandlers = PublisherAtStartup
  /\ delivery = Delivery("none", "none", <<>>, "none")
  /\ ent = NoReservation
  /\ entResult = EntOutcome("none", FALSE)
  /\ tasks = [k \in Tasks |-> IdleTask]
  /\ log = <<>>

(***************************************************************************)
(* The clock.                                                              *)
(***************************************************************************)
Advance(d) ==
  /\ now + d <= MaxNow
  /\ now' = now + d
  /\ UNCHANGED <<sysVars, busVars, entVars, taskVars>>

\* the smallest step of the clock
Tick == Advance(1)

\* a day passes
TickDay == Advance(DayMs)

\* the hold period and one more day pass
TickHold == Advance(HOLD_PERIOD_DAYS * DayMs + DayMs)

(***************************************************************************)
(* Operations on one Reservation snapshot.                                 *)
(***************************************************************************)
EntApply(op, r) ==
  /\ IF IsErr(r)
     THEN ent' = ent /\ entResult' = EntOutcome(op, TRUE)
     ELSE ent' = r /\ entResult' = EntOutcome(op, FALSE)
  /\ UNCHANGED <<now, sysVars, busVars, taskVars>>

EntCreate(u, b) == EntApply("create", create(u, b, now))

RestoreTimes == 0..MaxRestore

EntRestore(status, createdAt, readyAt, expiresAt) ==
  EntApply("restore",
           restore(generate(createdAt), 1, 1, status, createdAt, readyAt,
                   expiresAt))

EntMarkAsReady ==
  /\ ent # NoReservation
  /\ EntApply("markAsReady", markAsReady(ent, now))

EntFulfill ==
  /\ ent # NoReservation
  /\ EntApply("fulfill", fulfill(ent, now))

EntExpire ==
  /\ ent # NoReservation
  /\ EntApply("expire", expire(ent))

EntCancel ==
  /\ ent # NoReservation
  /\ EntApply("cancel", cancel(ent))

NextEntity ==
  \/ Tick
  \/ \E u \in Users, b \in Books : EntCreate(u, b)
  \/ \E status \in ReservationStatus, createdAt \in RestoreTimes,
        readyAt \in RestoreTimes \cup {NULL},
        expiresAt \in RestoreTimes \cup {NULL} :
       EntRestore(status, createdAt, readyAt, expiresAt)
  \/ EntMarkAsReady
  \/ EntFulfill
  \/ EntExpire
  \/ EntCancel

SpecEntity == Init /\ [][NextEntity]_vars

(***************************************************************************)
(* Operations on the two dispatchers: the EventBus (registry `handlers')   *)
(* and the DomainEventPublisher singleton (registry `pubHandlers').        *)
(***************************************************************************)
RECURSIVE SumLen(_, _)
SumLen(registry, types) ==
  IF types = {} THEN 0
  ELSE LET t == CHOOSE x \in types : TRUE
       IN Len(registry[t]) + SumLen(registry, types \ {t})

\* number of registrations held by both dispatchers
Subscriptions == SumLen(handlers, DOMAIN handlers)
                 + SumLen(pubHandlers, DOMAIN pubHandlers)

EventBus_subscribe(eventType, h) ==
  /\ Subscriptions < MaxSubs
  /\ handlers' = subscribe(handlers, eventType, h)
  /\ UNCHANGED <<now, sysVars, pubHandlers, delivery, entVars, taskVars>>

\* last keeps the event type and the index at which the handler was found
\* (0 when it was not registered)
EventBus_unsubscribe(eventType, h) ==
  /\ handlers' = unsubscribe(handlers, eventType, h)
  /\ last' = Outcome("unsubscribe", eventType, 0,
                     indexOf(handlersOf(handlers, eventType), h))
  /\ UNCHANGED <<now, reservations, books, users, published, pubHandlers,
                 delivery, entVars, taskVars>>

EventBus_publish(eventType, b) ==
  LET d == publish(handlers, eventType)
      r == IF eventType = "BookAvailable"
           THEN deliverBookAvailable(d.calls, 1,
                  [store |-> reservations, events |-> <<>>], b, now)
           ELSE [store |-> reservations, events |-> <<>>]
  IN /\ delivery' = Delivery("EventBus", eventType, d.calls, d.outcome)
     /\ reservations' = r.store
     /\ published' = r.events
     /\ UNCHANGED <<now, books, users, last, handlers, pubHandlers, entVars, taskVars>>

DomainEventPublisher_subscribe(eventType, h) ==
  /\ Subscriptions < MaxSubs
  /\ pubHandlers' = subscribe(pubHandlers, eventType, h)
  /\ UNCHANGED <<now, sysVars, handlers, delivery, entVars, taskVars>>

DomainEventPublisher_publish(eventType, b) ==
  LET d == publish(pubHandlers, eventType)
      r == IF eventType = "BookAvailable"
           THEN deliverBookAvailable(d.calls, 1,
                  [store |-> reservations, events |-> <<>>], b, now)
           ELSE [store |-> reservations, events |-> <<>>]
  IN /\ delivery' = Delivery("DomainEventPublisher", eventType, d.calls,
                             d.outcome)
     /\ reservations' = r.store
     /\ published' = r.events
     /\ UNCHANGED <<now, books, users, last, handlers, pubHandlers, entVars, taskVars>>

NextBus ==
  \/ \E t \in BusTypes, h \in TestHandlers : EventBus_subscribe(t, h)
  \/ \E t \in BusTypes, h \in TestHandlers : EventBus_unsubscribe(t, h)
  \/ \E t \in BusTypes, b \in Books : EventBus_publish(t, b)
  \/ \E t \in BusTypes, h \in TestHandlers :
       DomainEventPublisher_subscribe(t, h)
  \/ \E t \in BusTypes, b \in Books : DomainEventPublisher_publish(t, b)

SpecBus == Init /\ [][NextBus]_vars

(***************************************************************************)
(* Handlers that unsubscribe while publish is running.  publish iterates   *)
(* over the array stored in the Map, the array unsubscribe splices, and    *)
(* the array iterator reads the element at its index as long as the index  *)
(* is below the current length.                                            *)
(***************************************************************************)
\* h1 and h2 return; hLeave unsubscribes itself and hEvict unsubscribes h1,
\* both from the type being dispatched
LeavingHandlers == {"h1", "h2", "hLeave", "hEvict"}

unsubscribes(h) ==
  CASE h = "hLeave" -> "hLeave"
    [] h = "hEvict" -> "h1"
    [] OTHER        -> "none"

\* for (const handler of eventHandlers) { await handler(event) } from the
\* iterator's index i on (1-based); eventHandlers is the array of the
\* registry as the calls so far have left it
RECURSIVE dispatchLive(_, _, _, _, _)
dispatchLive(registry, eventType, eventHandlers, i, calls) ==
  IF i > Len(eventHandlers) THEN [calls |-> calls, registry |-> registry]
  ELSE LET handler == eventHandlers[i]
           index == indexOf(eventHandlers, unsubscribes(handler))
           after == IF unsubscribes(handler) = "none" THEN registry
                    ELSE unsubscribe(registry, eventType,
                                     unsubscribes(handler))
           spliced == IF index > 0 THEN splice1(eventHandlers, index)
                      ELSE eventHandlers
       IN dispatchLive(after, eventType, spliced, i + 1,
                       Append(calls, handler))

EventBus_publish_live(eventType) ==
  LET d == dispatchLive(handlers, eventType, handlersOf(handlers, eventType),
                        1, <<>>)
  IN /\ handlers' = d.registry
     /\ delivery' = Delivery("EventBus", eventType, d.calls, "resolved")
     /\ published' = <<>>
     /\ UNCHANGED <<now, reservations, books, users, last, pubHandlers,
                    entVars, taskVars>>

NextLeaving ==
  \/ \E t \in BusTypes, h \in LeavingHandlers : EventBus_subscribe(t, h)
  \/ \E t \in BusTypes, h \in LeavingHandlers : EventBus_unsubscribe(t, h)
  \/ \E t \in BusTypes : EventBus_publish_live(t)

SpecLeaving == Init /\ [][NextLeaving]_vars

(***************************************************************************)
(* Operations of the reservation queue, one at a time.                     *)
(***************************************************************************)
EmptyRun == [store |-> reservations, events |-> <<>>]

\* ReservationQueueService.reserveBook(user, book) called with a stored
\* user and a stored book
ReserveBook(u, b) ==
  LET r == reserveBook(EmptyRun, u, b, now)
  IN /\ Len(r.store) <= MaxRes
     /\ reservations' = r.store
     /\ last' = Outcome("reserveBook", IF r.success THEN "ok" ELSE r.error,
                        0, 0)
     /\ published' = r.events
     /\ UNCHANGED <<now, books, users, busVars, entVars, taskVars>>

ReserveBookUseCase_execute(u, b) ==
  /\ UNCHANGED <<now, books, users, busVars, entVars, taskVars>>
  /\ IF u \notin Users THEN
       /\ last' = Outcome("reserve", "User not found", 0, 0)
       /\ published' = <<>>
       /\ UNCHANGED reservations
     ELSE IF b \notin Books THEN
       /\ last' = Outcome("reserve", "Book not found", 0, 0)
       /\ published' = <<>>
       /\ UNCHANGED reservations
     ELSE IF isAvailable(books[b]) THEN
       /\ last' = Outcome("reserve", "Book is currently available", 0, 0)
       /\ published' = <<>>
       /\ UNCHANGED reservations
     ELSE LET r == reserveBook(EmptyRun, u, b, now)
          IN /\ Len(r.store) <= MaxRes
             /\ reservations' = r.store
             /\ last' = Outcome("reserve",
                                IF r.success THEN "ok" ELSE r.error, 0,
                                IF r.success
                                THEN getQueuePosition(r.store, b, u) ELSE 0)
             /\ published' = r.events

\* mutant: the use case without its check for an already cancelled
\* reservation
CancelReservationUseCase_NoCancelledCheck(id) ==
  LET reservation == findById(reservations, id)
  IN /\ UNCHANGED <<now, books, users, busVars, entVars, taskVars>>
     /\ IF reservation = NoReservation THEN
          /\ last' = Outcome("cancel", "Reservation not found", 0, 0)
          /\ published' = <<>>
          /\ UNCHANGED reservations
        ELSE IF reservation.status = FULFILLED THEN
          /\ last' = Outcome("cancel", "Cannot cancel fulfilled reservation",
                             0, 0)
          /\ published' = <<>>
          /\ UNCHANGED reservations
        ELSE IF reservation.status = EXPIRED THEN
          /\ last' = Outcome("cancel", "Cannot cancel expired reservation",
                             0, 0)
          /\ published' = <<>>
          /\ UNCHANGED reservations
        ELSE LET r == cancelReservation(
                        [store |-> reservations, events |-> <<>>,
                         threw |-> FALSE], reservation, now)
             IN /\ reservations' = r.store
                /\ last' = Outcome("cancel",
                                   IF r.threw THEN "threw" ELSE "ok", 0, 0)
                /\ published' = r.events

CancelReservationUseCase_execute(id) ==
  LET reservation == findById(reservations, id)
  IN /\ UNCHANGED <<now, books, users, busVars, entVars, taskVars>>
     /\ IF reservation = NoReservation THEN
          /\ last' = Outcome("cancel", "Reservation not found", 0, 0)
          /\ published' = <<>>
          /\ UNCHANGED reservations
        ELSE IF reservation.status = FULFILLED THEN
          /\ last' = Outcome("cancel", "Cannot cancel fulfilled reservation",
                             0, 0)
          /\ published' = <<>>
          /\ UNCHANGED reservations
        ELSE IF reservation.status = EXPIRED THEN
          /\ last' = Outcome("cancel", "Cannot cancel expired reservation",
                             0, 0)
          /\ published' = <<>>
          /\ UNCHANGED reservations
        ELSE IF reservation.status = CANCELLED THEN
          /\ last' = Outcome("cancel", "Reservation is already cancelled",
                             0, 0)
          /\ published' = <<>>
          /\ UNCHANGED reservations
        ELSE LET r == cancelReservation(
                        [store |-> reservations, events |-> <<>>,
                         threw |-> FALSE], reservation, now)
             IN /\ reservations' = r.store
                /\ last' = Outcome("cancel",
                                   IF r.threw THEN "threw" ELSE "ok", 0, 0)
                /\ published' = r.events

\* ReservationQueueService.fulfillReservation(reservation) for a stored
\* reservation
FulfillReservation(id) ==
  LET reservation == findById(reservations, id)
  IN /\ reservation # NoReservation
     /\ LET r == fulfillReservation(
                   [store |-> reservations, events |-> <<>>,
                    threw |-> FALSE], reservation, now)
        IN /\ reservations' = r.store
           /\ last' = Outcome("fulfill", IF r.threw THEN "threw" ELSE "ok",
                              0, 0)
           /\ published' = r.events
     /\ UNCHANGED <<now, books, users, busVars, entVars, taskVars>>

ProcessExpiredReservations ==
  LET r == processExpiredReservations(reservations, now)
  IN /\ reservations' = r.store
     /\ last' = Outcome("sweep", "ok", r.count, 0)
     /\ published' = r.events
     /\ UNCHANGED <<now, books, users, busVars, entVars, taskVars>>

\* a BookAvailable event for book b published on the DomainEventPublisher
\* singleton, where BookAvailableHandler is subscribed
PublishBookAvailable(b) ==
  LET d == publish(pubHandlers, "BookAvailable")
      r == deliverBookAvailable(d.calls, 1, EmptyRun, b, now)
  IN /\ reservations' = r.store
     /\ last' = Outcome("bookAvailable", "ok", 0, 0)
     /\ published' = r.events
     /\ UNCHANGED <<now, books, users, busVars, entVars, taskVars>>

\* identifiers a caller may present: those of the stored reservations and
\* one that resolves to nothing
ReservationIds == {reservations[i].id : i \in 1..Len(reservations)} \cup {NULL}

(***************************************************************************)
(* The queue of one book seen through the repository: QueueLen             *)
(* reservations created one clock unit apart by different users, the       *)
(* first QueueLen - 1 for book 1, and saved in any order.                  *)
(***************************************************************************)
Orders(n) ==
  {p \in [1..n -> 1..n] : \A i, j \in 1..n : i # j => p[i] # p[j]}

Created(b) ==
  [i \in 1..QueueLen |->
     create(i, IF i < QueueLen THEN 1 ELSE b, i - 1)]

RECURSIVE saveAll(_, _, _, _)
saveAll(store, rs, order, i) ==
  IF i > Len(rs) THEN store
  ELSE saveAll(save(store, rs[order[i]]), rs, order, i + 1)

InitFifo ==
  /\ now = QueueLen - 1
  /\ \E b \in Books, order \in Orders(QueueLen) :
       reservations = saveAll(<<>>, Created(b), order, 1)
  /\ books = [b \in Books |-> NewBook(AVAILABLE, NULL, NULL)]
  /\ users = [u \in Users |-> NewUser("ACTIVE", 0, 0)]
  /\ last = Outcome("init", "", 0, 0)
  /\ published = <<>>
  /\ handlers = EmptyRegistry
  /\ pubHandlers = PublisherAtStartup
  /\ delivery = Delivery("none", "none", <<>>, "none")
  /\ ent = NoReservation
  /\ entResult = EntOutcome("none", FALSE)
  /\ tasks = [k \in Tasks |-> IdleTask]
  /\ log = <<>>

NextFifo ==
  \/ TickDay
  \/ \E b \in Books : PublishBookAvailable(b)
  \/ ProcessExpiredReservations
  \/ \E id \in ReservationIds : CancelReservationUseCase_execute(id)
  \/ \E id \in ReservationIds : FulfillReservation(id)

SpecFifo == InitFifo /\ [][NextFifo]_vars

(***************************************************************************)
(* The queue service used through its own operations.                      *)
(***************************************************************************)
NextQueue ==
  \/ TickDay
  \/ \E u \in Users, b \in Books : ReserveBook(u, b)
  \/ \E b \in Books : PublishBookAvailable(b)
  \/ ProcessExpiredReservations
  \/ \E id \in ReservationIds : CancelReservationUseCase_execute(id)
  \/ \E id \in ReservationIds : FulfillReservation(id)

SpecQueue == Init /\ [][NextQueue]_vars

(***************************************************************************)
(* The application: the use cases, the sweep and the BookAvailable         *)
(* handler.                                                                *)
(***************************************************************************)
BorrowBookUseCase_execute(u, b) ==
  /\ UNCHANGED <<now, reservations, busVars, entVars, taskVars>>
  /\ IF u \notin DOMAIN users THEN
       /\ last' = Outcome("borrow", "User not found", 0, 0)
       /\ published' = <<>>
       /\ UNCHANGED <<books, users>>
     ELSE IF b \notin DOMAIN books THEN
       /\ last' = Outcome("borrow", "Book not found", 0, 0)
       /\ published' = <<>>
       /\ UNCHANGED <<books, users>>
     ELSE LET r == BorrowBookService_execute(users, books, u, b, now)
          IN /\ users' = r.users
             /\ books' = r.books
             /\ last' = Outcome("borrow",
                                IF r.success THEN "ok" ELSE r.error, 0, 0)
             /\ published' = <<>>

\* for (const event of domainEvents) { await this.eventBus.publish(event) },
\* from position i on; st = [store, events, delivery]
RECURSIVE publishEvents(_, _, _, _, _)
publishEvents(registry, domainEvents, i, st, t) ==
  IF i > Len(domainEvents) THEN st
  ELSE LET event == domainEvents[i]
           d == publish(registry, event.type)
           q == deliverBookAvailable(d.calls, 1,
                  [st EXCEPT !.events = Append(st.events, event)],
                  event.bookId, t)
       IN publishEvents(registry, domainEvents, i + 1,
            [q EXCEPT !.delivery = Delivery("EventBus", event.type, d.calls,
                                            d.outcome)], t)

\* the use case publishes the returned book's BookAvailableEvent on the
\* IEventBus it was constructed with (the registry `handlers')
ReturnBookUseCase_execute(u, b) ==
  /\ UNCHANGED <<now, handlers, pubHandlers, entVars, taskVars>>
  /\ IF u \notin DOMAIN users THEN
       /\ last' = Outcome("return", "User not found", 0, 0)
       /\ published' = <<>>
       /\ UNCHANGED <<reservations, books, users, delivery>>
     ELSE IF b \notin DOMAIN books THEN
       /\ last' = Outcome("return", "Book not found", 0, 0)
       /\ published' = <<>>
       /\ UNCHANGED <<reservations, books, users, delivery>>
     ELSE IF books[b].status # BORROWED THEN
       /\ last' = Outcome("return", "Book is not currently borrowed", 0, 0)
       /\ published' = <<>>
       /\ UNCHANGED <<reservations, books, users, delivery>>
     ELSE LET r == BorrowBookService_returnBook(users, books, u, b, now)
          IN IF ~r.success THEN
               /\ last' = Outcome("return", r.error, 0, 0)
               /\ published' = <<>>
               /\ UNCHANGED <<reservations, books, users, delivery>>
             ELSE
               LET q == publishEvents(handlers, getDomainEvents(b), 1,
                          [store |-> reservations, events |-> <<>>,
                           delivery |-> delivery], now)
               IN /\ users' = r.users
                  /\ books' = r.books
                  /\ reservations' = q.store
                  /\ delivery' = q.delivery
                  /\ last' = Outcome("return", "ok", 0, 0)
                  /\ published' = q.events

Next ==
  \/ TickHold
  \/ \E u \in Users \cup {NoUser}, b \in Books \cup {NoBook} :
       ReserveBookUseCase_execute(u, b)
  \/ \E id \in ReservationIds : CancelReservationUseCase_execute(id)
  \/ \E u \in Users \cup {NoUser}, b \in Books \cup {NoBook} :
       BorrowBookUseCase_execute(u, b)
  \/ \E u \in Users \cup {NoUser}, b \in Books \cup {NoBook} :
       ReturnBookUseCase_execute(u, b)
  \/ ProcessExpiredReservations
  \/ \E b \in Books : PublishBookAvailable(b)

Spec == Init /\ [][Next]_vars

(***************************************************************************)
(* The queue of book 1 with the sweep run again and again while time       *)
(* passes.                                                                 *)
(***************************************************************************)
NextLive ==
  \/ TickDay
  \/ \E u \in Users : ReserveBook(u, 1)
  \/ PublishBookAvailable(1)
  \/ ProcessExpiredReservations
  \/ \E id \in ReservationIds : CancelReservationUseCase_execute(id)
  \/ \E id \in ReservationIds : FulfillReservation(id)

SpecLive ==
  /\ Init
  /\ [][NextLive]_vars
  /\ WF_vars(TickDay)
  /\ WF_vars(ProcessExpiredReservations)

(***************************************************************************)
(* Borrowing and returning on a shelf large enough for a user to reach     *)
(* the borrow limit, through the use cases and through the domain service  *)
(* called with a stored user and a stored book.                            *)
(***************************************************************************)
BorrowBook(u, b) ==
  /\ u \in DOMAIN users /\ b \in DOMAIN books
  /\ LET r == BorrowBookService_execute(users, books, u, b, now)
     IN /\ users' = r.users
        /\ books' = r.books
        /\ last' = Outcome("borrowBook", IF r.success THEN "ok" ELSE r.error,
                           0, 0)
        /\ published' = <<>>
  /\ UNCHANGED <<now, reservations, busVars, entVars, taskVars>>

ReturnBook(u, b) ==
  /\ u \in DOMAIN users /\ b \in DOMAIN books
  /\ LET r == BorrowBookService_returnBook(users, books, u, b, now)
     IN /\ users' = r.users
        /\ books' = r.books
        /\ last' = Outcome("returnBook", IF r.success THEN "ok" ELSE r.error,
                           r.overdueFee, 0)
        /\ published' = <<>>
  /\ UNCHANGED <<now, reservations, busVars, entVars, taskVars>>

Shelf == 1..ShelfSize

InitBorrow ==
  /\ now = 0
  /\ reservations = <<>>
  /\ books = [b \in Shelf |-> NewBook(AVAILABLE, NULL, NULL)]
  /\ \E status \in [Users -> {"ACTIVE", "SUSPENDED"}] :
       /\ status[1] = "ACTIVE"
       /\ users = [u \in Users |-> NewUser(status[u], 0, 0)]
  /\ last = Outcome("init", "", 0, 0)
  /\ published = <<>>
  /\ handlers = EmptyRegistry
  /\ pubHandlers = PublisherAtStartup
  /\ delivery = Delivery("none", "none", <<>>, "none")
  /\ ent = NoReservation
  /\ entResult = EntOutcome("none", FALSE)
  /\ tasks = [k \in Tasks |-> IdleTask]
  /\ log = <<>>

NextBorrow ==
  \/ \E u \in Users, b \in Shelf : BorrowBook(u, b)
  \/ \E u \in Users, b \in Shelf : ReturnBook(u, b)
  \/ \E u \in Users \cup {NoUser}, b \in Shelf \cup {NoBook} :
       BorrowBookUseCase_execute(u, b)
  \/ \E u \in Users \cup {NoUser}, b \in Shelf \cup {NoBook} :
       ReturnBookUseCase_execute(u, b)

SpecBorrow == InitBorrow /\ [][NextBorrow]_vars

(***************************************************************************)
(* A book that has been out for some time: book 1 was borrowed by user 1   *)
(* at time 0 and the clock is read up to MaxDaysOut days later.            *)
(***************************************************************************)
InitFee ==
  /\ now \in 0..(MaxDaysOut * DayMs + DayMs - 1)
  /\ reservations = <<>>
  /\ books = [b \in Books |-> IF b = 1 THEN NewBook(BORROWED, 1, 0)
                              ELSE NewBook(AVAILABLE, NULL, NULL)]
  /\ users = [u \in Users |-> NewUser("ACTIVE", IF u = 1 THEN 1 ELSE 0, 0)]
  /\ last = Outcome("init", "", 0, 0)
  /\ published = <<>>
  /\ handlers = EmptyRegistry
  /\ pubHandlers = PublisherAtStartup
  /\ delivery = Delivery("none", "none", <<>>, "none")
  /\ ent = NoReservation
  /\ entResult = EntOutcome("none", FALSE)
  /\ tasks = [k \in Tasks |-> IdleTask]
  /\ log = <<>>

NextFee ==
  \/ \E u \in Users, b \in Books : ReturnBook(u, b)
  \/ \E u \in Users, b \in Books : BorrowBook(u, b)

SpecFee == InitFee /\ [][NextFee]_vars

(***************************************************************************)
(* Invocations that overlap.  An async function runs without interruption  *)
(* up to its next await, where other invocations may run; the calls of the *)
(* in-memory repository read or write the Map before they suspend.  Each   *)
(* operator below is the code between two awaits of one invocation k,      *)
(* applied to w = [task, store, log].                                      *)
(***************************************************************************)
\* one entry of the log: task k stored reservation id with status `what'
\* (kind "save"), published an event of type `what' about it (kind
\* "publish") or completed handler `what' for that event (kind "handled");
\* cause is the reservation whose vacated slot led to it, NULL if none
Effect(k, kind, what, id, cause) ==
  Canonical([task |-> k, kind |-> kind, what |-> what, id |-> id,
             cause |-> cause])

\* DomainEventPublisher.publish(event): the event, then each handler of
\* its type awaited in turn
RECURSIVE handled(_, _, _, _, _)
handled(k, calls, i, id, cause) ==
  IF i > Len(calls) THEN <<>>
  ELSE <<Effect(k, "handled", calls[i], id, cause)>>
         \o handled(k, calls, i + 1, id, cause)

published_on(registry, k, type, id, cause) ==
  <<Effect(k, "publish", type, id, cause)>>
    \o handled(k, publish(registry, type).calls, 1, id, cause)

\* where the caller of notifyNextInQueue goes on
afterNotify(task) == IF task.op = "sweep" THEN "loop" ELSE "done"

\* processExpiredReservations up to `await findByStatus(READY)'
sweep_begin(w) ==
  [w EXCEPT !.task = Task("sweep", "loop", findByStatus(w.store, READY), 1,
                          NoReservation, <<>>, NoReservation, 0)]

\* position of the next expired reservation of the list from i on, 0 if none
RECURSIVE nextExpired(_, _, _)
nextExpired(readyReservations, i, t) ==
  IF i > Len(readyReservations) THEN 0
  ELSE IF isExpired(readyReservations[i], t) THEN i
  ELSE nextExpired(readyReservations, i + 1, t)

\* mutant: the event is published before the expired reservation is saved
sweep_save_PublishFirst(k, w, t, registry) ==
  LET j == nextExpired(w.task.readyReservations, w.task.i, t)
  IN IF j = 0 THEN [w EXCEPT !.task.pc = "done"]
     ELSE LET reservation == w.task.readyReservations[j]
          IN [task |-> Task("sweep", "getNext", w.task.readyReservations,
                            j + 1, reservation, <<>>, NoReservation,
                            w.task.expiredCount + 1),
              store |-> save(w.store, expire(reservation)),
              log |-> w.log
                      \o published_on(registry, k, "ReservationExpired",
                                      reservation.id, NULL)
                      \o <<Effect(k, "save", EXPIRED, reservation.id, NULL)>>]

\* the for loop up to `await save(expiredReservation)' of the next
\* expired reservation, or to the return
sweep_save(k, w, t, registry) ==
  LET j == nextExpired(w.task.readyReservations, w.task.i, t)
  IN IF j = 0 THEN [w EXCEPT !.task.pc = "done"]
     ELSE LET reservation == w.task.readyReservations[j]
              expiredReservation == expire(reservation)
          IN [task |-> Task("sweep", "publishExpired",
                            w.task.readyReservations, j + 1, reservation,
                            <<>>, NoReservation, w.task.expiredCount + 1),
              store |-> save(w.store, expiredReservation),
              log |-> Append(w.log, Effect(k, "save", EXPIRED,
                                           reservation.id, NULL))]

\* expiredCount++ up to `await publish(event)'
sweep_publish(k, w, registry) ==
  [w EXCEPT !.task.pc = "getNext",
            !.log = w.log \o published_on(registry, k, "ReservationExpired",
                                          w.task.reservation.id, NULL)]

\* notifyNextInQueue up to `await findActiveByBook(bookId)' in getNextInQueue
notify_getNext(w) ==
  [w EXCEPT !.task.pc = "markReady",
            !.task.activeReservations =
               findActiveByBook(w.store, w.task.reservation.bookId)]

\* the sort, the return of getNextInQueue and notifyNextInQueue up to
\* `await save(readyReservation)'
notify_save(k, w, t) ==
  IF Len(w.task.activeReservations) = 0
  THEN [w EXCEPT !.task.pc = afterNotify(w.task)]
  ELSE LET nextReservation == SortByCreatedAt(w.task.activeReservations)[1]
           readyReservation == markAsReady(nextReservation, t)
       IN [task |-> [w.task EXCEPT !.pc = "publishReady",
                                   !.readyReservation = readyReservation],
           store |-> save(w.store, readyReservation),
           log |-> Append(w.log, Effect(k, "save", READY, readyReservation.id,
                                        w.task.reservation.id))]

\* notifyNextInQueue up to `await publish(event)' and its return
notify_publish(k, w, registry) ==
  [w EXCEPT !.task.pc = afterNotify(w.task),
            !.log = w.log \o published_on(registry, k, "ReservationReady",
                                          w.task.readyReservation.id,
                                          w.task.reservation.id)]

\* CancelReservationUseCase.execute up to `await findById(reservationId)'
cancel_begin(w, id) ==
  [w EXCEPT !.task = Task("cancel", "check", <<>>, 0, findById(w.store, id),
                          <<>>, NoReservation, 0)]

\* the checks on the reservation read, and cancelReservation up to
\* `await save(cancelled)'
cancel_save(k, w) ==
  LET reservation == w.task.reservation
  IN IF reservation = NoReservation
        \/ reservation.status \in {FULFILLED, EXPIRED, CANCELLED}
     THEN [w EXCEPT !.task.pc = "done"]
     ELSE [task |-> [w.task EXCEPT !.pc = IF reservation.status = READY
                                          THEN "getNext" ELSE "done"],
           store |-> save(w.store, cancel(reservation)),
           log |-> Append(w.log, Effect(k, "save", CANCELLED, reservation.id,
                                        NULL))]

\* reserveBook(user, book) up to `await findByUserAndBook(user.id, book.id)'
reserve_begin(w, userId, bookId) ==
  [w EXCEPT !.task = [IdleTask EXCEPT
                        !.op = "reserve", !.pc = "checkExisting",
                        !.userId = userId, !.bookId = bookId,
                        !.existingReservations =
                           findByUserAndBook(w.store, userId, bookId)]]

\* the duplicate check on the reservations read, Reservation.create and
\* reserveBook up to `await save(reservation)'
reserve_save(k, w, t) ==
  LET existingReservations == w.task.existingReservations
      hasActive == \E i \in 1..Len(existingReservations) :
                      existingReservations[i].status \in {ACTIVE, READY}
  IN IF hasActive THEN [w EXCEPT !.task.pc = "done"]
     ELSE LET reservation == create(w.task.userId, w.task.bookId, t)
          IN [task |-> [w.task EXCEPT !.pc = "publishReserved",
                                      !.reservation = reservation],
              store |-> save(w.store, reservation),
              log |-> Append(w.log, Effect(k, "save", ACTIVE, reservation.id,
                                           NULL))]

\* reserveBook up to `await publish(event)' and its return
reserve_publish(k, w, registry) ==
  [w EXCEPT !.task.pc = "done",
            !.log = w.log \o published_on(registry, k, "BookReserved",
                                          w.task.reservation.id, NULL)]

World(k) == [task |-> tasks[k], store |-> reservations, log |-> log]

TaskStep(k, pc, w) ==
  /\ tasks[k].pc = pc
  /\ tasks' = [tasks EXCEPT ![k] = w.task]
  /\ reservations' = w.store
  /\ log' = w.log
  /\ UNCHANGED <<now, books, users, last, published, busVars, entVars>>

StartSweep(k)     == TaskStep(k, "idle", sweep_begin(World(k)))
SweepSave(k)      == TaskStep(k, "loop",
                              sweep_save(k, World(k), now, pubHandlers))
SweepPublish(k)   == TaskStep(k, "publishExpired",
                              sweep_publish(k, World(k), pubHandlers))
NotifyGetNext(k)  == TaskStep(k, "getNext", notify_getNext(World(k)))
NotifySave(k)     == TaskStep(k, "markReady", notify_save(k, World(k), now))
NotifyPublish(k)  == TaskStep(k, "publishReady",
                              notify_publish(k, World(k), pubHandlers))
StartCancel(k, id) == TaskStep(k, "idle", cancel_begin(World(k), id))
CancelSave(k)     == TaskStep(k, "check", cancel_save(k, World(k)))

StartReserve(k, u, b) == TaskStep(k, "idle", reserve_begin(World(k), u, b))
ReserveSave(k)       == TaskStep(k, "checkExisting",
                                 reserve_save(k, World(k), now))
ReservePublish(k)    == TaskStep(k, "publishReserved",
                                 reserve_publish(k, World(k), pubHandlers))

\* reserveBook calls that overlap, on an empty store, while the clock runs
NextReserving ==
  \/ Tick
  \/ \E k \in Tasks, u \in Users, b \in Books : StartReserve(k, u, b)
  \/ \E k \in Tasks : ReserveSave(k)
  \/ \E k \in Tasks : ReservePublish(k)

SpecReserving == Init /\ [][NextReserving]_vars

\* the queue of book 1, its first reservation READY since the last one was
\* created, seen before or after the hold has run out, with or without a
\* subscriber to ReservationExpired
InitTasks ==
  /\ now \in {QueueLen - 1, QueueLen + HOLD_PERIOD_DAYS * DayMs}
  /\ reservations =
       LET rs == Created(1)
       IN save(saveAll(<<>>, rs, [i \in 1..QueueLen |-> i], 1),
               markAsReady(rs[1], QueueLen - 1))
  /\ books = [b \in Books |-> NewBook(AVAILABLE, NULL, NULL)]
  /\ users = [u \in Users |-> NewUser("ACTIVE", 0, 0)]
  /\ last = Outcome("init", "", 0, 0)
  /\ published = <<>>
  /\ handlers = EmptyRegistry
  /\ pubHandlers \in {PublisherAtStartup}
        \cup {subscribe(PublisherAtStartup, "ReservationExpired", h) :
                h \in {"h1", "hReject"}}
  /\ delivery = Delivery("none", "none", <<>>, "none")
  /\ ent = NoReservation
  /\ entResult = EntOutcome("none", FALSE)
  /\ tasks = [k \in Tasks |-> IdleTask]
  /\ log = <<>>

NextTasks ==
  \/ \E k \in Tasks : StartSweep(k)
  \/ \E k \in Tasks : SweepSave(k)
  \/ \E k \in Tasks : SweepPublish(k)
  \/ \E k \in Tasks : NotifyGetNext(k)
  \/ \E k \in Tasks : NotifySave(k)
  \/ \E k \in Tasks : NotifyPublish(k)
  \/ \E k \in Tasks, id \in ReservationIds : StartCancel(k, id)
  \/ \E k \in Tasks : CancelSave(k)

SpecTasks == InitTasks /\ [][NextTasks]_vars

(***************************************************************************)
(* Properties.                                                             *)
(***************************************************************************)
Range(s) == {s[i] : i \in 1..Len(s)}

\* every reservation the program holds: the stored ones and the snapshot
\* returned by the last entity operation
AllReservations ==
  Range(reservations) \cup (IF ent = NoReservation THEN {} ELSE {ent})

\* C1: in every reachable state, every reservation (stored or returned by
\* an entity operation) with status READY has both readyAt and expiresAt
\* set, and every reservation whose expiresAt is set has expiresAt strictly
\* after createdAt.
C1_ReservationInvariant ==
  \A r \in AllReservations :
    /\ r.status = READY => (r.readyAt # NULL /\ r.expiresAt # NULL)
    /\ r.expiresAt # NULL => r.expiresAt > r.createdAt

\* a restored ACTIVE snapshot was marked as ready after some time had passed
C1_Witness ==
  /\ entResult = EntOutcome("markAsReady", FALSE)
  /\ ent.status = READY
  /\ ent.readyAt > ent.createdAt

\* the registry of a dispatcher
RegistryOf(bus) == IF bus = "EventBus" THEN handlers ELSE pubHandlers

\* a step that is a publish of type t on dispatcher bus
IsPublish(bus, t) ==
  \E b \in Books :
    IF bus = "EventBus" THEN EventBus_publish(t, b)
    ELSE DomainEventPublisher_publish(t, b)

Dispatchers == {"EventBus", "DomainEventPublisher"}
AllHandlers == TestHandlers \cup {"BookAvailableHandler"}

Occurrences(s, x) == Cardinality({i \in 1..Len(s) : s[i] = x})

C10_FailureIsolation ==
  [][\A bus \in Dispatchers, t \in BusTypes :
       IsPublish(bus, t) =>
         LET hs == handlersOf(RegistryOf(bus), t)
         IN \A i \in 1..Len(hs) :
              invoke(hs[i]) # "returns" =>
                /\ Len(delivery'.calls) = Len(hs)
                /\ \A j \in (i + 1)..Len(hs) : delivery'.calls[j] = hs[j]
                /\ delivery'.outcome = "resolved"]_vars

\* a publish whose first handler failed went on to invoke a second handler
\* and resolved
C10_Witness ==
  /\ delivery.outcome = "resolved"
  /\ Len(delivery.calls) >= 2
  /\ invoke(delivery.calls[1]) # "returns"
  /\ invoke(delivery.calls[2]) = "returns"

Stored == Range(reservations)

\* the ACTIVE reservations of book b in the store
ActiveOf(b) == {r \in Stored : r.bookId = b /\ r.status = ACTIVE}

\* the stored reservation with identifier id is promoted by this step
Promoted(id) ==
  /\ findById(reservations, id) # NoReservation
  /\ findById(reservations, id).status = ACTIVE
  /\ findById(reservations', id) # NoReservation
  /\ findById(reservations', id).status = READY

\* C2: getNextInQueue(bookId) returns the ACTIVE reservation of that book
\* with the earliest createdAt regardless of the order in which the
\* reservations were saved, so over any sequence of operations a reservation
\* is never promoted to READY while a reservation for the same book with a
\* strictly earlier createdAt is still ACTIVE.
C2_FifoNoOvertaking ==
  /\ [](\A b \in Books :
          LET nextReservation == getNextInQueue(reservations, b)
          IN IF ActiveOf(b) = {} THEN nextReservation = NoReservation
             ELSE /\ nextReservation \in ActiveOf(b)
                  /\ \A q \in ActiveOf(b) :
                       nextReservation.createdAt <= q.createdAt)
  /\ [][\A r \in Stored :
          Promoted(r.id) =>
            ~\E q \in ActiveOf(r.bookId) : q.createdAt < r.createdAt]_vars

\* a reservation saved after a later-created one of the same book was
\* promoted first: the later-created one, earlier in the store, is ACTIVE
C2_Witness ==
  \E i, j \in 1..Len(reservations) :
    /\ i < j
    /\ reservations[i].bookId = reservations[j].bookId
    /\ reservations[i].createdAt > reservations[j].createdAt
    /\ reservations[i].status = ACTIVE
    /\ reservations[j].status = READY

\* user u holds a reservation for book b that is ACTIVE or READY
Holds(u, b) ==
  \E r \in Stored :
    r.userId = u /\ r.bookId = b /\ r.status \in {ACTIVE, READY}

AlreadyReserved == "User already has active reservation for this book"

\* C3: reserveBook(user, book) fails with the already-reserved error exactly
\* when the user holds a reservation for that same book in status ACTIVE or
\* READY; it succeeds when the user's reservations for that book are all
\* FULFILLED, EXPIRED or CANCELLED, and reservations the user holds for
\* other books never cause a failure.
C3_DuplicatePrevention ==
  [][\A u \in Users, b \in Books :
       ReserveBook(u, b) =>
         /\ last'.result = AlreadyReserved <=> Holds(u, b)
         /\ ~Holds(u, b) => last'.result = "ok"
         /\ last'.result = AlreadyReserved => reservations' = reservations]_vars

\* a user whose earlier reservation for a book reached a final status
\* reserved the same book again, successfully
C3_Witness ==
  /\ last.op = "reserveBook"
  /\ last.result = "ok"
  /\ \E r, q \in Stored :
       /\ r.userId = q.userId /\ r.bookId = q.bookId
       /\ r.status \in {FULFILLED, EXPIRED, CANCELLED}
       /\ q.status = ACTIVE /\ q.createdAt = now

\* the three reservations A, B, C of the queue of book 1, in creation order
ResA == findById(reservations, generate(0))
ResB == findById(reservations, generate(1))
ResC == findById(reservations, generate(2))

OneQueue == \A r \in Stored : r.bookId = 1

\* C4: with reservations A, B, C for one book created in that order, A READY
\* and expired, B and C ACTIVE, one processExpiredReservations sweep leaves
\* A EXPIRED, B READY and C ACTIVE; C stays ACTIVE in every later state until
\* B has been expired or cancelled (read in the claim's favour: a step in
\* which C's owner cancels C, or in which B leaves READY, is not held
\* against it).
C4_CascadeHoldsC ==
  /\ [][(/\ ProcessExpiredReservations
         /\ OneQueue
         /\ ResA.status = READY /\ isExpired(ResA, now)
         /\ ResB.status = ACTIVE /\ ResC.status = ACTIVE)
        => (/\ findById(reservations', ResA.id).status = EXPIRED
            /\ findById(reservations', ResB.id).status = READY
            /\ findById(reservations', ResC.id).status = ACTIVE)]_vars
  /\ [][(/\ OneQueue
         /\ ResA.status = EXPIRED
         /\ ResB.status = READY /\ ResC.status = ACTIVE
         /\ findById(reservations', ResB.id).status = READY)
        => findById(reservations', ResC.id).status \in {ACTIVE, CANCELLED}]_vars

\* C5: calling processExpiredReservations twice in a row, with no other
\* operation and no passage of time in between, expires nothing on the
\* second call: it returns 0, publishes no event and leaves every stored
\* reservation unchanged.
C5_SweepIdempotent ==
  [][ProcessExpiredReservations =>
       LET second == processExpiredReservations(reservations', now')
       IN /\ second.count = 0
          /\ second.events = <<>>
          /\ second.store = reservations']_vars

\* a sweep expired a reservation and promoted the next one of its book
C5_Witness ==
  /\ last.op = "sweep"
  /\ last.count > 0
  /\ \E r, q \in Stored :
       /\ r.status = EXPIRED /\ q.status = READY
       /\ q.bookId = r.bookId /\ q.readyAt = now

\* C6: when a BORROWED book that has at least one ACTIVE reservation is
\* returned through ReturnBookUseCase.execute (with BookAvailableHandler
\* constructed at startup), then by the time execute returns the
\* earliest-created ACTIVE reservation of that book is stored as READY with
\* getRemainingDays() = 3, and every later-created reservation of the book
\* is still ACTIVE.
C6_ReturnPromotesNext ==
  [][\A u \in Users, b \in Books :
       (/\ ReturnBookUseCase_execute(u, b)
        /\ books[b].status = BORROWED
        /\ last' = Outcome("return", "ok", 0, 0)
        /\ ActiveOf(b) # {})
       => LET head  == getNextInQueue(reservations, b)
              after == findById(reservations', head.id)
          IN /\ after.status = READY
             /\ getRemainingDays(after, now') = HOLD_PERIOD_DAYS
             /\ \A q \in ActiveOf(b) \ {head} :
                  findById(reservations', q.id).status = ACTIVE]_vars

\* C7: when the user who holds a READY, unexpired reservation for a book
\* borrows that book (BorrowBookUseCase.execute succeeds for that user and
\* book), the reservation's stored status becomes FULFILLED.
C7_BorrowFulfils ==
  [][\A u \in Users, b \in Books :
       (/\ BorrowBookUseCase_execute(u, b)
        /\ last' = Outcome("borrow", "ok", 0, 0))
       => \A r \in Stored :
            (/\ r.userId = u /\ r.bookId = b
             /\ r.status = READY /\ ~isExpired(r, now))
            => findById(reservations', r.id).status = FULFILLED]_vars

\* clock values at which a reservation made READY sees its hold end before
\* the clock of the model stops
EarlyTimes == 0..(MaxNow - HOLD_PERIOD_DAYS * DayMs - 1)

\* the reservation whose identifier was generated at clock value t, made by
\* user u, is stored with a status in S
StoredAs(t, u, S) ==
  \E r \in Stored :
    /\ r.id = generate(t) /\ r.createdAt = t /\ r.userId = u
    /\ r.status \in S
    /\ r.status = READY => r.readyAt \in EarlyTimes

\* C8: if processExpiredReservations is invoked infinitely often and time
\* keeps advancing, every reservation that becomes READY eventually reaches
\* FULFILLED, EXPIRED or CANCELLED.  A reservation is followed by its
\* identifier: the one generated at t is READY leads to the one generated at
\* t is stored in a terminal status.
C8_NoStuckHold ==
  \A t \in EarlyTimes :
    (\E u \in Users : StoredAs(t, u, {READY}))
      ~> (\E u \in Users : StoredAs(t, u, {FULFILLED, EXPIRED, CANCELLED}))

(***************************************************************************)
(* Reservation entity operations.                                          *)
(***************************************************************************)
\* the transitions of the reservation life cycle: operation, status before,
\* status after
PermittedTransitions ==
  {<<"markAsReady", ACTIVE, READY>>, <<"fulfill", READY, FULFILLED>>,
   <<"expire", READY, EXPIRED>>, <<"cancel", ACTIVE, CANCELLED>>,
   <<"cancel", READY, CANCELLED>>}

\* a step that applies markAsReady, fulfill, expire or cancel to the
\* snapshot
EntTransition == EntMarkAsReady \/ EntFulfill \/ EntExpire \/ EntCancel

\* C11: the entity permits exactly the transitions ACTIVE to READY
\* (markAsReady), READY to FULFILLED (fulfill), READY to EXPIRED (expire),
\* ACTIVE to CANCELLED and READY to CANCELLED (cancel); every other
\* combination of operation and current status raises an error and produces
\* no new snapshot.
C11_ExactTransitions ==
  [][EntTransition =>
       IF entResult'.threw
       THEN /\ ent' = ent
            /\ \/ \A to \in ReservationStatus :
                    <<entResult'.op, ent.status, to>> \notin PermittedTransitions
               \/ entResult'.op = "fulfill" /\ isExpired(ent, now)
       ELSE <<entResult'.op, ent.status, ent'.status>> \in PermittedTransitions
    ]_vars

\* C13: isExpired() is true exactly when status is READY, expiresAt is set
\* and the current time is strictly greater than expiresAt; it is false for
\* every ACTIVE, FULFILLED, CANCELLED or EXPIRED reservation no matter how
\* much time has passed, and false for a READY reservation immediately
\* after markAsReady().
C13_IsExpiredExact ==
  /\ [](\A r \in AllReservations :
          /\ isExpired(r, now) <=>
               (r.status = READY /\ r.expiresAt # NULL /\ now > r.expiresAt)
          /\ r.status # READY => ~isExpired(r, now))
  /\ [][(EntMarkAsReady /\ ~entResult'.threw) => ~isExpired(ent', now')]_vars

\* a snapshot made READY has seen its window elapse
C13_Witness ==
  /\ entResult = EntOutcome("markAsReady", FALSE)
  /\ ent.status = READY
  /\ now > ent.expiresAt
  /\ isExpired(ent, now)

C12_FulfillGuard ==
  [][\A id \in ReservationIds :
       (last'.op = "fulfill" /\ FulfillReservation(id)) =>
         LET r == findById(reservations, id)
         IN IF r.status = READY /\ ~(now > r.expiresAt)
            THEN /\ last'.result = "ok"
                 /\ findById(reservations', id).status = FULFILLED
            ELSE /\ last'.result = "threw"
                 /\ reservations' = reservations]_vars

\* fulfillReservation raised an error when every stored reservation was
\* READY with its window elapsed
C12_Witness ==
  /\ last.op = "fulfill"
  /\ last.result = "threw"
  /\ \A r \in Stored : r.status = READY /\ now > r.expiresAt

\* the events of type t among the events es
EventsOf(es, t) == SelectSeq(es, LAMBDA e : e.type = t)

\* the stored reservations that are READY with their window elapsed
Due == {r \in Stored : r.status = READY /\ now > r.expiresAt}

\* C15: processExpiredReservations transitions to EXPIRED exactly those
\* stored reservations that are READY with now > expiresAt when the sweep
\* runs, publishes exactly one ReservationExpired event for each of them,
\* returns their number, and leaves READY reservations whose window has not
\* elapsed unchanged.
C15_SweepExact ==
  [][(last'.op = "sweep" /\ ProcessExpiredReservations) =>
       LET expiredEvents == EventsOf(published', "ReservationExpired")
       IN /\ \A r \in Stored :
               (r.status # EXPIRED
                  /\ findById(reservations', r.id).status = EXPIRED)
                 <=> r \in Due
          /\ \A r \in Due :
               /\ findById(reservations', r.id) = [r EXCEPT !.status = EXPIRED]
               /\ Cardinality({i \in 1..Len(expiredEvents) :
                     expiredEvents[i].reservationId = r.id}) = 1
          /\ Len(expiredEvents) = Cardinality(Due)
          /\ last'.count = Cardinality(Due)
          /\ \A r \in Stored :
               (r.status = READY /\ r \notin Due)
                 => findById(reservations', r.id) = r]_vars

\* a sweep expired two reservations and left a READY one in place
C15_Witness ==
  /\ last.op = "sweep"
  /\ last.count = 2
  /\ Len(EventsOf(published, "ReservationExpired")) = 2
  /\ \E r \in Stored : r.status = READY

\* the store after the step differs from the store before it in the
\* reservation with identifier id at most
OnlyChanged(id) ==
  /\ Len(reservations') = Len(reservations)
  /\ \A i \in 1..Len(reservations) :
       reservations[i].id # id => reservations'[i] = reservations[i]

\* C16: notifyNextInQueue(bookId) with at least one ACTIVE reservation for
\* the book changes exactly one stored reservation (the earliest-created
\* ACTIVE one becomes READY with expiresAt = now + 3 days) and publishes
\* exactly one ReservationReady event carrying that expiresAt; with no
\* ACTIVE reservation for the book it changes nothing and publishes
\* nothing; reservations of other books are never changed.
C16_NotifyFrame ==
  [][\A b \in Books :
       (last'.op = "bookAvailable" /\ PublishBookAvailable(b)) =>
         /\ \A r \in Stored :
              r.bookId # b => findById(reservations', r.id) = r
         /\ IF ActiveOf(b) = {}
            THEN reservations' = reservations /\ published' = <<>>
            ELSE \E r \in ActiveOf(b) :
                   /\ \A q \in ActiveOf(b) : r.createdAt <= q.createdAt
                   /\ findById(reservations', r.id) =
                        [r EXCEPT !.status = READY, !.readyAt = now,
                                  !.expiresAt = now + HOLD_PERIOD_DAYS * DayMs]
                   /\ OnlyChanged(r.id)
                   /\ published' =
                        <<Event("ReservationReady", r.id, r.userId, b,
                                now + HOLD_PERIOD_DAYS * DayMs,
                                "DomainEventPublisher")>>]_vars

\* a BookAvailable event promoted one reservation while a reservation of
\* another book was stored
C16_Witness ==
  /\ last.op = "bookAvailable"
  /\ Len(published) = 1
  /\ published[1].type = "ReservationReady"
  /\ \E r, q \in Stored :
       /\ r.id = published[1].reservationId
       /\ r.status = READY
       /\ r.expiresAt = published[1].expiresAt
       /\ q.bookId # r.bookId

\* C17: cancelReservation of a READY reservation stores it as CANCELLED and
\* promotes the earliest ACTIVE reservation of the same book (if any) to
\* READY; cancelReservation of an ACTIVE reservation stores it as CANCELLED,
\* changes no other reservation and publishes no ReservationReady event.
C17_CancelCascade ==
  [][\A id \in ReservationIds :
       (last'.op = "cancel" /\ CancelReservationUseCase_execute(id)) =>
         LET r == findById(reservations, id)
             cancelled == [r EXCEPT !.status = CANCELLED]
         IN /\ (r # NoReservation /\ r.status = ACTIVE) =>
                 /\ findById(reservations', id) = cancelled
                 /\ OnlyChanged(id)
                 /\ EventsOf(published', "ReservationReady") = <<>>
            /\ (r # NoReservation /\ r.status = READY) =>
                 /\ findById(reservations', id) = cancelled
                 /\ IF ActiveOf(r.bookId) = {}
                    THEN OnlyChanged(id) /\ published' = <<>>
                    ELSE \E a \in ActiveOf(r.bookId) :
                           /\ \A q \in ActiveOf(r.bookId) :
                                a.createdAt <= q.createdAt
                           /\ findById(reservations', a.id).status = READY
                           /\ \A q \in Stored :
                                q.id \notin {id, a.id}
                                  => findById(reservations', q.id) = q]_vars

\* the cancellation of a READY reservation promoted the next in queue
C17_Witness ==
  /\ last.op = "cancel"
  /\ last.result = "ok"
  /\ Len(EventsOf(published, "ReservationReady")) = 1
  /\ \E r, a \in Stored :
       /\ r.status = CANCELLED /\ r.readyAt # NULL
       /\ a.bookId = r.bookId /\ a.status = READY
       /\ a.id = published[1].reservationId

\* C18: fulfillReservation does not cascade: after it succeeds only the
\* fulfilled reservation has changed (READY to FULFILLED); every other
\* reservation, in particular every ACTIVE reservation for the same book,
\* is unchanged and no event is published.
C18_FulfillNoCascade ==
  [][\A id \in ReservationIds :
       (last'.op = "fulfill" /\ last'.result = "ok"
          /\ FulfillReservation(id)) =>
         LET r == findById(reservations, id)
         IN /\ r.status = READY
            /\ findById(reservations', id) = [r EXCEPT !.status = FULFILLED]
            /\ OnlyChanged(id)
            /\ \A a \in ActiveOf(r.bookId) :
                 findById(reservations', a.id) = a
            /\ published' = <<>>]_vars

\* a reservation was fulfilled while another one was waiting for the book
C18_Witness ==
  /\ last.op = "fulfill"
  /\ last.result = "ok"
  /\ published = <<>>
  /\ \E r, a \in Stored :
       /\ r.status = FULFILLED
       /\ a.bookId = r.bookId /\ a.status = ACTIVE

\* C19: a successful reserveBook(user, book) adds exactly one reservation
\* to the store (status ACTIVE, readyAt and expiresAt unset, for that user
\* and book), leaves every previously stored reservation present and
\* unchanged, and publishes exactly one BookReserved event carrying the new
\* reservation's id.
C19_ReserveFrame ==
  [][\A u \in Users, b \in Books :
       (last'.op = "reserveBook" /\ last'.result = "ok"
          /\ ReserveBook(u, b)) =>
         /\ Len(reservations') = Len(reservations) + 1
         /\ \A i \in 1..Len(reservations) : reservations'[i] = reservations[i]
         /\ \E r \in Range(reservations') \ Stored :
              /\ r.userId = u /\ r.bookId = b /\ r.status = ACTIVE
              /\ r.readyAt = NULL /\ r.expiresAt = NULL
              /\ published' = <<Event("BookReserved", r.id, u, b, NULL,
                                      "DomainEventPublisher")>>]_vars

\* the users that reservations are made for
QueueUsers == {r.userId : r \in Stored} \cup Users

\* C20: getQueuePosition(bookId, userId) equals 1 plus the number of ACTIVE
\* reservations for the book that precede the user's ACTIVE reservation in
\* createdAt order, and equals 0 when the user has no ACTIVE reservation
\* for that book (including when the user's reservation for it is READY,
\* FULFILLED, EXPIRED or CANCELLED).
C20_QueuePosition ==
  \A b \in Books, u \in QueueUsers :
    LET mine == {r \in ActiveOf(b) : r.userId = u}
        position == getQueuePosition(reservations, b, u)
    IN IF mine = {}
       THEN position = 0
       ELSE \E r \in mine :
              position = 1 + Cardinality({q \in ActiveOf(b) :
                                            q.createdAt < r.createdAt})

\* a book with a READY reservation (position 0) and two waiting ones, the
\* later-created of them stored first
C20_Witness ==
  \E b \in Books :
    /\ \E r \in Stored :
         /\ r.bookId = b /\ r.status = READY
         /\ getQueuePosition(reservations, b, r.userId) = 0
    /\ \E i, j \in 1..Len(reservations) :
         /\ i < j
         /\ reservations[i].bookId = b /\ reservations[j].bookId = b
         /\ reservations[i].status = ACTIVE /\ reservations[j].status = ACTIVE
         /\ reservations[i].createdAt > reservations[j].createdAt
         /\ getQueuePosition(reservations, b, reservations[i].userId) = 2

(***************************************************************************)
(* Use cases.  Identifiers presented to a use case are well-formed; one    *)
(* that names nothing stored is NoUser, NoBook or NULL.                    *)
(***************************************************************************)
\* what ReserveBookUseCase.execute answers for user u and book b
ReserveAnswer(u, b) ==
  CASE u \notin Users -> "User not found"
    [] u \in Users /\ b \notin Books -> "Book not found"
    [] u \in Users /\ b \in Books /\ isAvailable(books[b])
         -> "Book is currently available"
    [] u \in Users /\ b \in Books /\ ~isAvailable(books[b]) /\ Holds(u, b)
         -> AlreadyReserved
    [] OTHER -> "ok"

CancelAnswer(r) ==
  CASE r = NoReservation -> "Reservation not found"
    [] r # NoReservation /\ r.status = FULFILLED
         -> "Cannot cancel fulfilled reservation"
    [] r # NoReservation /\ r.status = EXPIRED
         -> "Cannot cancel expired reservation"
    [] r # NoReservation /\ r.status = CANCELLED
         -> "Reservation is already cancelled"
    [] OTHER -> "ok"

EffectsOf(ops, kind, what) ==
  {i \in DOMAIN log : /\ log[i].kind = kind
                      /\ log[i].what = what
                      /\ tasks[log[i].task].op \in ops}

StoredIds == {reservations[i].id : i \in 1..Len(reservations)}

\* C23: when invocations of processExpiredReservations overlap, every
\* reservation is stored EXPIRED at most once, at most one ReservationExpired
\* event is published for it (and one once the sweeps have returned), and
\* at most one reservation is made READY on account of it
C23_NoDoubleProcessing ==
  \A id \in StoredIds :
    /\ Cardinality({i \in EffectsOf({"sweep"}, "save", EXPIRED) :
                      log[i].id = id}) <= 1
    /\ Cardinality({i \in EffectsOf({"sweep"}, "publish",
                                    "ReservationExpired") :
                      log[i].id = id}) <= 1
    /\ Cardinality({log[i].id : i \in
                      {j \in EffectsOf({"sweep"}, "save", READY) :
                         log[j].cause = id}}) <= 1
    /\ (/\ \A k \in Tasks : tasks[k].pc \in {"idle", "done"}
        /\ \E i \in EffectsOf({"sweep"}, "save", EXPIRED) : log[i].id = id)
       => \E i \in EffectsOf({"sweep"}, "publish", "ReservationExpired") :
             log[i].id = id

Terminal == {FULFILLED, EXPIRED, CANCELLED}

\* positions of the log where reservation id was stored with a terminal
\* status
TransitionsOn(id) ==
  {i \in DOMAIN log : /\ log[i].kind = "save"
                      /\ log[i].what \in Terminal
                      /\ log[i].id = id}

\* the tasks that made a reservation READY on account of reservation id
CascadesFor(id) ==
  {log[i].task : i \in {j \in DOMAIN log : /\ log[j].kind = "save"
                                           /\ log[j].what = READY
                                           /\ log[j].cause = id}}

\* C24: when a cancellation overlaps a sweep or another cancellation on
\* one reservation, at most one of them stores a transition of it, its slot
\* leads to at most one cascade, and a stored terminal status is never
\* replaced by another terminal status
C24_Linearized ==
  /\ [](\A id \in StoredIds :
          (\E i \in TransitionsOn(id) : log[i].what = CANCELLED)
            => /\ Cardinality(TransitionsOn(id)) <= 1
               /\ Cardinality(CascadesFor(id)) <= 1)
  /\ [][\A i \in 1..Len(reservations) :
          (/\ reservations[i].status \in Terminal
           /\ reservations'[i].status \in Terminal)
            => reservations'[i].status = reservations[i].status]_vars

(***************************************************************************)
(* EventBus.unsubscribe.                                                   *)
(***************************************************************************)
\* s without its elements equal to x
Without(s, x) == SelectSeq(s, LAMBDA y : y # x)

\* s without the first of its elements equal to x
WithoutFirst(s, x) ==
  LET i == CHOOSE j \in 1..Len(s) : s[j] = x /\ \A l \in 1..(j - 1) : s[l] # x
  IN [j \in 1..(Len(s) - 1) |-> IF j < i THEN s[j] ELSE s[j + 1]]

IsBorrow(u, b) == BorrowBook(u, b) \/ BorrowBookUseCase_execute(u, b)

\* C26: every user's currentBorrowCount is between 0 and 5 in every state
\* reached through borrow and return, and a borrow attempt by a user who
\* has 5 books is rejected and changes neither the user nor the book
C26_BorrowLimit ==
  /\ [](\A u \in DOMAIN users :
          /\ users[u].currentBorrowCount >= 0
          /\ users[u].currentBorrowCount <= MAX_BORROW_LIMIT)
  /\ [][\A u \in Users, b \in Shelf :
          (users[u].currentBorrowCount = MAX_BORROW_LIMIT /\ IsBorrow(u, b))
            => /\ last'.result # "ok"
               /\ users' = users
               /\ books' = books]_vars

\* a user with 5 books, the only one who may not borrow, was refused
C26_Witness ==
  /\ last.op \in {"borrow", "borrowBook"}
  /\ last.result = "User is not eligible to borrow books"
  /\ \E u \in DOMAIN users :
       /\ users[u].currentBorrowCount = MAX_BORROW_LIMIT
       /\ Cardinality({b \in DOMAIN books : books[b].borrowedBy = u})
            = MAX_BORROW_LIMIT
       /\ \A v \in DOMAIN users \ {u} : canBorrow(users[v])
  /\ \E b \in DOMAIN books : isAvailable(books[b])

\* C27: BorrowBookService.execute saves neither the user nor the book
\* when the user is not eligible or the book is not available, and
\* returnBook saves neither when the book is not borrowed by that user; the
\* caller gets a failure result in each case
C27_NoPartialSave ==
  [][\A u \in Users, b \in Shelf :
       /\ (last'.op = "borrowBook" /\ ~canBorrow(users[u])
             /\ BorrowBook(u, b))
            => /\ users' = users /\ books' = books
               /\ last'.result = "User is not eligible to borrow books"
       /\ (last'.op = "borrowBook" /\ canBorrow(users[u])
             /\ ~isAvailable(books[b]) /\ BorrowBook(u, b))
            => /\ users' = users /\ books' = books
               /\ last'.result = "Book is not available for borrowing"
       /\ (last'.op = "returnBook" /\ books[b].borrowedBy # u
             /\ ReturnBook(u, b))
            => /\ users' = users /\ books' = books
               /\ last'.result = "Book is not borrowed by this user"]_vars

\* returnBook was refused while every borrowed book is in the hands of one
\* user and the other user has books as well
C27_Witness ==
  /\ last.op = "returnBook"
  /\ last.result = "Book is not borrowed by this user"
  /\ \E b \in DOMAIN books : books[b].status = BORROWED
  /\ \A u \in DOMAIN users : users[u].currentBorrowCount > 0

\* whole days between two readings of the clock
DaysBetween(from, to) == (to - from) \div DayMs

\* the fee for a book out for daysBorrowed days, as the rule states it
FeeRule(daysBorrowed) ==
  LET overdueDays == Max(0, daysBorrowed - 14)
  IN Min(Max(0, overdueDays - 3) * 10, 1000)

\* C28: the fee charged on return is min(max(0, overdueDays - 3) * 10, 1000)
\* with overdueDays = max(0, daysBorrowed - 14): nothing up to 17 days out,
\* 10 at 18 days, 10 more for each further day, and never more than 1000
C28_OverdueFee ==
  [][\A u \in Users, b \in Books :
       (last'.op = "returnBook" /\ books[b].borrowedBy = u /\ ReturnBook(u, b)
          /\ last'.result = "ok")
         => LET days == DaysBetween(books[b].borrowedAt, now)
                fee  == last'.count
            IN /\ fee = calculateOverdueFee(books[b], now)
               /\ fee = FeeRule(days)
               /\ days <= 17 => fee = 0
               /\ days = 18 => fee = 10
               /\ (days >= 18 /\ fee < 1000) => fee = 10 * (days - 17)
               /\ fee <= 1000
               /\ users'[u].overdueFees = users[u].overdueFees + fee]_vars

\* a book out for so long that the uncapped fee would pass 1000 was
\* returned, and the user was charged 1000
C28_Witness ==
  /\ last.op = "returnBook"
  /\ last.result = "ok"
  /\ last.count = MAX_FEE
  /\ (DaysBetween(0, now) - 17) * FEE_PER_DAY > MAX_FEE
  /\ users[1].overdueFees = MAX_FEE

(***************************************************************************)
(* Order of the effects of one sweep.                                      *)
(***************************************************************************)
\* positions before p where task k did `kind' with `what' on reservation
\* id on account of cause
Earlier(p, k, kind, what, id, cause) ==
  {q \in 1..(p - 1) : log[q] = Effect(k, kind, what, id, cause)}

\* handlers that task k had completed before position p for the
\* ReservationExpired event of reservation id
CompletedBefore(p, k, id) ==
  {q \in 1..(p - 1) : /\ log[q].task = k
                      /\ log[q].kind = "handled"
                      /\ log[q].id = id
                      /\ log[q].cause = NULL}

\* C29: within one processExpiredReservations, the EXPIRED state of R is
\* stored before ReservationExpired(R) is published, that event has been
\* handed to all its handlers before the next reservation of R's book is
\* stored READY, and that one is stored before its ReservationReady event
\* is published
C29_SweepOrder ==
  \A p \in DOMAIN log :
    LET e == log[p]
    IN tasks[e.task].op = "sweep" =>
         /\ (e.kind = "publish" /\ e.what = "ReservationExpired")
              => Earlier(p, e.task, "save", EXPIRED, e.id, NULL) # {}
         /\ (e.kind = "save" /\ e.what = READY)
              => /\ Earlier(p, e.task, "publish", "ReservationExpired",
                            e.cause, NULL) # {}
                 /\ Cardinality(CompletedBefore(p, e.task, e.cause))
                      >= Len(handlersOf(pubHandlers, "ReservationExpired"))
         /\ (e.kind = "publish" /\ e.what = "ReservationReady")
              => Earlier(p, e.task, "save", READY, e.id, e.cause) # {}

\* one sweep ran alone to its end: it stored the expired reservation,
\* published its event to the subscribed handler, stored the next one READY
\* and published that
C29_Witness ==
  /\ \E k \in Tasks :
       /\ tasks[k].op = "sweep" /\ tasks[k].pc = "done"
       /\ tasks[k].expiredCount = 1
       /\ \A j \in Tasks \ {k} : tasks[j].pc = "idle"
  /\ Len(log) = 5
  /\ log[1].kind = "save" /\ log[1].what = EXPIRED
  /\ log[2].kind = "publish" /\ log[2].what = "ReservationExpired"
  /\ log[3].kind = "handled"
  /\ log[4].kind = "save" /\ log[4].what = READY
  /\ log[4].cause = log[1].id
  /\ log[5].kind = "publish" /\ log[5].what = "ReservationReady"
  /\ log[5].id = log[4].id

(***************************************************************************)
(* ReturnBookUseCase.                                                      *)
(***************************************************************************)
\* C30: ReturnBookUseCase.execute publishes exactly one BookAvailable
\* event, for the returned book, when the return succeeds, and none when it
\* fails; it fails when the user or the book is not found, when the book is
\* not borrowed, and when it is borrowed by another user
C30_OneBookAvailable ==
  [][\A u \in Users \cup {NoUser}, b \in Shelf \cup {NoBook} :
       (last'.op = "return" /\ ReturnBookUseCase_execute(u, b)) =>
         LET announced == EventsOf(published', "BookAvailable")
         IN /\ IF last'.result = "ok"
               THEN /\ Len(announced) = 1
                    /\ announced[1].bookId = b
                    /\ announced[1].via = "EventBus"
                    /\ delivery'.bus = "EventBus"
                    /\ delivery'.type = "BookAvailable"
                    /\ books[b].borrowedBy = u
                    /\ isAvailable(books'[b])
               ELSE /\ announced = <<>>
                    /\ delivery' = delivery
                    /\ books' = books /\ users' = users
            /\ (\/ u \notin DOMAIN users
                \/ b \notin DOMAIN books
                \/ books[b].status # BORROWED
                \/ books[b].borrowedBy # u) => last'.result # "ok"]_vars

\* a return succeeded while other books are still out, and one
\* BookAvailable event was published
C30_Witness ==
  /\ last = Outcome("return", "ok", 0, 0)
  /\ Len(published) = 1
  /\ published[1].type = "BookAvailable"
  /\ isAvailable(books[published[1].bookId])
  /\ \E b \in DOMAIN books : books[b].status = BORROWED

(***************************************************************************)
(* The hold of a book.                                                     *)
(***************************************************************************)
ReadyFor(b) == {r \in Stored : r.bookId = b /\ r.status = READY}

\* C31: in every state reached through the use cases, the delivery of
\* BookAvailable and the sweep, run one at a time, each book has at most
\* one reservation in READY status
C31_OneReadyPerBook ==
  \A b \in Books : Cardinality(ReadyFor(b)) <= 1

\* the users who hold book b now: READY reservation, expiresAt not passed
Holders(b) == {r.userId : r \in {x \in ReadyFor(b) : ~isExpired(x, now)}}

\* C32: while a book has a READY reservation whose expiresAt has not
\* passed, a borrow of that book succeeds only for the user who holds that
\* reservation
C32_HoldEnforced ==
  [][\A u \in Users, b \in Books :
       (last'.op = "borrow" /\ Holders(b) # {}
          /\ BorrowBookUseCase_execute(u, b) /\ last'.result = "ok")
         => u \in Holders(b)]_vars

\* C33: in every reachable state each (user, book) pair has at most one
\* reservation in status ACTIVE or READY, also when two reserveBook calls
\* for the pair overlap
C33_OnePerPair ==
  \A u \in Users, b \in Books :
    Cardinality({r \in Stored : /\ r.userId = u /\ r.bookId = b
                                /\ r.status \in {ACTIVE, READY}}) <= 1

(***************************************************************************)
(* Unsubscribing during publish.                                           *)
(***************************************************************************)
\* the handlers that the handlers of hs unsubscribe when they are invoked
Leaving(hs) == {unsubscribes(hs[i]) : i \in 1..Len(hs)} \ {"none"}

\* in hs every handler unsubscribes nothing, itself, or a handler that
\* stands before it
LeavesInvokedOnly(hs) ==
  \A i \in 1..Len(hs) :
    \/ unsubscribes(hs[i]) \in {"none", hs[i]}
    \/ /\ \E j \in 1..(i - 1) : hs[j] = unsubscribes(hs[i])
       /\ \A j \in (i + 1)..Len(hs) : hs[j] # unsubscribes(hs[i])

\* C34: if handlers unsubscribe themselves or an already invoked handler
\* from the type being dispatched while publish is running, every other
\* handler registered for the type when publish started is still invoked,
\* once per registration
C34_OthersStillInvoked ==
  [][\A t \in BusTypes :
       (EventBus_publish_live(t) /\ LeavesInvokedOnly(handlersOf(handlers, t)))
         => \A h \in Range(handlersOf(handlers, t))
                       \ Leaving(handlersOf(handlers, t)) :
              Occurrences(delivery'.calls, h)
                = Occurrences(handlersOf(handlers, t), h)]_vars

(***************************************************************************)
(* Terminal statuses in the store.                                         *)
(***************************************************************************)
\* C35: once a reservation is stored as FULFILLED, EXPIRED or CANCELLED, no
\* later reserve, cancel, notifyNextInQueue or sweep changes the stored
\* reservation's status, timestamps, user or book
C35_TerminalAbsorbing ==
  [][\A i \in 1..Len(reservations) :
       reservations[i].status \in Terminal
         => /\ i <= Len(reservations')
            /\ reservations'[i] = reservations[i]]_vars

(***************************************************************************)
(* Borrow counts against the books on loan.                                *)
(***************************************************************************)
BorrowedBy(u) ==
  {b \in DOMAIN books : books[b].status = BORROWED /\ books[b].borrowedBy = u}

\* C36: after any sequence of borrow and return executions run one at a
\* time, each stored user's currentBorrowCount equals the number of stored
\* books that are BORROWED with borrowedBy equal to that user
C36_CountMatchesBooks ==
  \A u \in DOMAIN users : users[u].currentBorrowCount = Cardinality(BorrowedBy(u))

\* a return succeeded while both users had books out, one of them several
C36_Witness ==
  /\ last.op \in {"return", "returnBook"}
  /\ last.result = "ok"
  /\ \A u \in DOMAIN users : users[u].currentBorrowCount >= 1
  /\ \E u \in DOMAIN users : Cardinality(BorrowedBy(u)) >= 2

====
